---- MODULE Spec2Model ----
(***************************************************************************)
(* Model of cowrite's CommentStore (src/src/comment-store.ts, the version  *)
(* at lines 183-434): the in-memory comment map, its status state machine, *)
(* the events each operation emits and the fire-and-forget persist write;  *)
(* of reload() and load() against the file; and of the wait_for_comment   *)
(* and get_pending_comments tools of the MCP server                        *)
(* (src/unnamed/part_006, lines 14-204) that deliver comments from it.     *)
(*                                                                         *)
(* Strings that the code inspects (selectedText, file contents, proposal   *)
(* texts) are sequences of characters; opaque strings (comment bodies,     *)
(* reply texts, file names) are TLA+ strings.  A nullable field is the     *)
(* empty tuple when null and a one-element tuple when set.                 *)
(***************************************************************************)
EXTENDS Integers, Sequences, FiniteSets, TLC

\* ---------------------------------------------------------------- bounds
\* Number of ids randomUUID() hands out in a run (comments and replies).
MaxUuid == 3
\* Most comments the store holds at one time.
MaxComments == 2

\* Calls of writeFile that are in flight together.
MaxInFlight == 2

\* ------------------------------------------------------- program constants
\* adjustOffsets searches [offset - 200, offset + length + 200].
SearchWindow == 200

\* ------------------------------------------------------------ input sets
Files == {"a.md", "b.md"}
Bodies == {"c"}
ReplyTexts == {"r"}
Parties == {"user", "agent"}
ProposalStatuses == {"applied", "rejected"}

\* (file, offset, length, selectedText) handed to add(): a whole-file comment
\* and a range-anchored comment of a.md, a range-anchored comment of b.md.
AddInputs ==
  { <<"a.md", 0, 0, <<>>>>, <<"a.md", 0, 1, <<"x">>>>, <<"b.md", 1, 1, <<"y">>>> }

\* newText values handed to addProposalReply().
NewTexts == { <<"y", "y">> }

\* File contents handed to adjustOffsets().
Contents == { <<"y">>, <<"y", "x">> }

VARIABLES
  comments,       \* this.comments: the Map's values in insertion order
  uuid,           \* number of ids randomUUID() has produced so far
  now,            \* Date.now()
  lastWriteTime,  \* this.lastWriteTime
  disk,           \* content of .cowrite-comments.json (<<>> = no file)
  issued,         \* the text the last operation handed to writeFile, if any
  writing,        \* the texts handed to writeFile that have not landed yet
  pendingLast,    \* the newest of them is the last operation's
  reading,        \* a reload() is awaiting its readFile
  loaded,         \* what load() gave a fresh store on the same directory
  emitted,        \* events emitted by the last operation, in emit order
  observed,       \* the map as the listener of each emitted event finds it
  lastOp,         \* the last operation called, its arguments and result
  deleted,        \* ids that delete() has removed
  lastSeenReplyCounts,  \* wait_for_comment: comment id -> replies when returned
  waiting,        \* the Promise of a wait_for_comment call is unresolved
  listeners,      \* the callbacks of that call that are still registered
  timer,          \* its timer: <<>> when none is armed, else <<delay in ms>>
  settled,        \* how many of the call's callbacks have run to completion
  result,         \* what the last completed wait_for_comment call returned
  quiet,          \* no store operation emitted since that call returned
  listed,         \* what the last get_pending_comments call returned
  annotated,      \* what the last get_file_with_annotations call returned
  notices,        \* changes of the file the watcher has yet to report
  changesHeard,   \* how many change events the store's listeners received
  adjustedTo,     \* the adjustOffsets call just made and the comments it moved
  humanSince,     \* ids the user replied to or reopened since they were returned
  second,         \* a second wait_for_comment call, made while one is blocked
  newCalls        \* comment id -> how many calls returned it tagged new_comment

storeVars ==
  <<comments, uuid, now, lastWriteTime, disk, issued, writing, pendingLast,
    reading, loaded, emitted, observed, lastOp, deleted>>

waitVars == <<lastSeenReplyCounts, waiting, listeners, timer, settled, result, quiet, listed>>

\* What the tools that never touch a wait_for_comment call have returned.
watchVars == <<notices, changesHeard>>
callVars == <<second, newCalls>>
toolVars == <<annotated, watchVars, adjustedTo, humanSince, callVars>>

vars == <<storeVars, waitVars, toolVars>>

\* ------------------------------------------------------------- Map helpers
\* this.comments.has(id)
Has(cs, id) == \E i \in 1..Len(cs) : cs[i].id = id

IndexOf(cs, id) == CHOOSE i \in 1..Len(cs) : cs[i].id = id

\* this.comments.get(id), for an id the map has
Get(cs, id) == cs[IndexOf(cs, id)]

\* this.comments.set(c.id, c): a new key goes last, an existing key keeps
\* its place.
MapSet(cs, c) ==
  IF Has(cs, c.id)
    THEN [cs EXCEPT ![IndexOf(cs, c.id)] = c]
    ELSE Append(cs, c)

\* A delete that filters the wrong way round: it keeps the entry it was
\* asked to remove.
MapDeleteInverted(cs, id) ==
  SelectSeq(cs, LAMBDA c : c.id = id)

\* this.comments.delete(id)
MapDelete(cs, id) ==
  SelectSeq(cs, LAMBDA c : c.id # id)

\* An emitted event: its name and its argument (<<>> for null).
Ev(type, payload) == [type |-> type, payload |-> payload]

\* get(commentId): the comment, or null
StoreGet(cs, id) == IF Has(cs, id) THEN <<Get(cs, id)>> ELSE <<>>

\* JSON.stringify of a Reply: a proposal that is undefined has no key.
JsonReply(r) ==
  IF r.proposal = <<>>
    THEN [ id |-> r.id, from |-> r.from, text |-> r.text, createdAt |-> r.createdAt ]
    ELSE [ id |-> r.id, from |-> r.from, text |-> r.text, createdAt |-> r.createdAt,
           proposal |-> r.proposal[1] ]

\* JSON.stringify of a Comment: resolvedAt is null or a string.
JsonComment(c) ==
  [ c EXCEPT !.replies = [k \in 1..Len(c.replies) |-> JsonReply(c.replies[k])],
             !.resolvedAt = IF c.resolvedAt = <<>> THEN <<"null">>
                            ELSE <<"string", c.resolvedAt[1]>> ]

\* JSON.stringify(arr, null, 2): a text that parses, holding the array.
JsonStringify(cs) ==
  [ parses |-> TRUE, json |-> [k \in 1..Len(cs) |-> JsonComment(cs[k])] ]

\* A file content that JSON.parse rejects, such as a text cut short.
Garbled == [ parses |-> FALSE, json |-> <<>> ]

\* The Reply a parsed JSON object is.
ParsedReply(j) ==
  [ id |-> j.id, from |-> j.from, text |-> j.text, createdAt |-> j.createdAt,
    proposal |-> IF "proposal" \in DOMAIN j THEN <<j.proposal>> ELSE <<>> ]

\* The Comment a parsed JSON object is.
ParsedComment(j) ==
  [ j EXCEPT !.replies = [k \in 1..Len(j.replies) |-> ParsedReply(j.replies[k])],
             !.resolvedAt = IF j.resolvedAt[1] = "null" THEN <<>>
                            ELSE <<j.resolvedAt[2]>> ]

\* JSON.parse(data) of a text that parses: the array of comments.
JsonParse(text) == [k \in 1..Len(text.json) |-> ParsedComment(text.json[k])]

\* persist(): stamps lastWriteTime, serialises the map as it is at the call
\* and hands the text to writeFile, without waiting for it.
Persist(cs) ==
  /\ lastWriteTime' = now
  /\ issued' = <<JsonStringify(cs)>>

NoPersist ==
  /\ UNCHANGED lastWriteTime
  /\ issued' = <<>>

\* The write an operation started has reached the file before anything
\* else happens.
WriteThrough ==
  /\ disk' = (IF issued' = <<>> THEN disk ELSE issued')
  /\ UNCHANGED <<writing, pendingLast, reading, loaded>>

\* The write an operation started is in flight when the operation returns.
WriteBehind ==
  /\ writing' = writing \o issued'
  /\ pendingLast' = (IF issued' = <<>> THEN pendingLast ELSE TRUE)
  /\ UNCHANGED <<disk, reading, loaded>>

\* The record of a call: the operation, the comment id it was given (or
\* created), the party of a reply, what it returned, and the status the
\* comment had when the call started ("none" when there was no comment).
Op(name, id, from, ret, prevStatus) ==
  [op |-> name, id |-> id, from |-> from, ret |-> ret, prevStatus |-> prevStatus]

\* What a wait_for_comment call returns: a comment tagged with an event, the
\* timeout text (with the number of pending comments it counted) or the
\* cancellation text; kind "none" before the first call has returned.
Result(kind, event, c, count) ==
  [kind |-> kind, event |-> event, comment |-> c, count |-> count,
   latestUserReply |-> <<>>, text |-> <<>>]

\* createMcpServer(): no comment was returned yet, no call is blocked.
InitWait ==
  /\ lastSeenReplyCounts = <<>>
  /\ waiting = FALSE
  /\ listeners = {}
  /\ timer = <<>>
  /\ settled = 0
  /\ result = Result("none", "none", <<>>, 0)
  /\ quiet = TRUE
  /\ listed = <<"none">>
  /\ annotated = <<>>
  /\ notices = 0
  /\ changesHeard = 0
  /\ adjustedTo = <<>>
  /\ humanSince = {}
  /\ second = [waiting |-> FALSE, result |-> Result("none", "none", <<>>, 0)]
  /\ newCalls = [id \in 1..MaxUuid |-> 0]

\* A step in which no wait_for_comment call is outstanding or made.
NoWaiter == UNCHANGED <<waitVars, toolVars>>

\* A step of the store or of wait_for_comment and get_pending_comments.
NoOtherTool == UNCHANGED toolVars

\* ---------------------------------------------------------------- Init
Init ==
  /\ comments = <<>>
  /\ uuid = 0
  /\ now = 0
  /\ lastWriteTime = 0
  /\ disk = <<>>
  /\ issued = <<>>
  /\ writing = <<>>
  /\ pendingLast = FALSE
  /\ reading = FALSE
  /\ loaded = <<>>
  /\ emitted = <<>>
  /\ observed = <<>>
  /\ lastOp = Op("init", 0, "none", "void", "none")
  /\ deleted = {}
  /\ InitWait

\* ------------------------------------------------------------- operations
\* Operations that emit before they mutate: listeners find the old map.
ObservedBeforeMutation(events, before, after) == [k \in 1..Len(events) |-> before]

\* What the listeners of the events of one call find in the map: emit() runs
\* them synchronously, and every operation emits after its last mutation of
\* the map (before is the map at the call, after the map it leaves).
Observed(events, before, after) == [k \in 1..Len(events) |-> after]

\* The comment object add() builds.
NewComment(id, file, offset, length, selectedText, body, t) ==
  [ id |-> id,
    file |-> file,
    offset |-> offset,
    length |-> length,
    selectedText |-> selectedText,
    comment |-> body,
    status |-> "pending",
    replies |-> <<>>,
    createdAt |-> t,
    resolvedAt |-> <<>> ]

\* An add() that forgets the new_comment event.
AddEventsChangeOnly(c) == <<Ev("change", <<c>>)>>

\* The events add() emits for the new comment c.
AddEvents(c) == <<Ev("change", <<c>>), Ev("new_comment", <<c>>)>>

\* add(params)
Add(file, offset, length, selectedText, body) ==
  /\ uuid < MaxUuid
  /\ Len(comments) < MaxComments
  /\ LET c == NewComment(uuid + 1, file, offset, length, selectedText, body, now)
     IN /\ comments' = MapSet(comments, c)
        /\ emitted' = AddEvents(c)
        /\ observed' = Observed(AddEvents(c), comments, MapSet(comments, c))
        /\ Persist(MapSet(comments, c))
        /\ lastOp' = Op("add", c.id, "none", "comment", "none")
  /\ uuid' = uuid + 1
  /\ UNCHANGED <<now, deleted>>

\* A call that returns before it touches anything.
Fails(name, id, from, ret, prevStatus) ==
  /\ lastOp' = Op(name, id, from, ret, prevStatus)
  /\ emitted' = <<>>
  /\ observed' = <<>>
  /\ NoPersist
  /\ UNCHANGED <<comments, uuid, now, deleted>>

\* A call that replaces the comment it was given by c and emits events.
Succeeds(name, from, ret, old, c, events) ==
  /\ comments' = MapSet(comments, c)
  /\ emitted' = events
  /\ observed' = Observed(events, comments, MapSet(comments, c))
  /\ Persist(MapSet(comments, c))
  /\ lastOp' = Op(name, old.id, from, ret, old.status)
  /\ UNCHANGED <<now, deleted>>

\* A resolve() that forgets the timestamp.
ResolvedNoTimestamp(c, t) == [c EXCEPT !.status = "resolved"]

\* What resolve() does to the comment, at time t.
Resolved(c, t) == [c EXCEPT !.status = "resolved", !.resolvedAt = <<t>>]

\* resolve(commentId)
Resolve(id) ==
  IF ~Has(comments, id)
    THEN Fails("resolve", id, "none", "null", "none")
    ELSE LET old == Get(comments, id)
             c == Resolved(old, now)
         IN /\ Succeeds("resolve", "none", "comment", old, c, <<Ev("change", <<c>>)>>)
            /\ UNCHANGED uuid

\* A reopen() that does not look at the status.
CanReopenAnyStatus(cs, id) == Has(cs, id)

\* The test reopen() makes before it changes anything.
CanReopen(cs, id) == Has(cs, id) /\ Get(cs, id).status = "resolved"

\* A reopen() that forgets to clear resolvedAt.
ReopenedKeepsResolvedAt(c) == [c EXCEPT !.status = "pending"]

\* What reopen() does to the comment.
Reopened(c) == [c EXCEPT !.status = "pending", !.resolvedAt = <<>>]

\* The events reopen() emits.
ReopenEvents(c) == <<Ev("change", <<c>>), Ev("comment_reopened", <<c>>)>>

\* reopen(commentId)
Reopen(id) ==
  IF ~CanReopen(comments, id)
    THEN Fails("reopen", id, "none", "null",
               IF Has(comments, id) THEN Get(comments, id).status ELSE "none")
    ELSE LET old == Get(comments, id)
             c == Reopened(old)
         IN /\ Succeeds("reopen", "none", "comment", old, c, ReopenEvents(c))
            /\ UNCHANGED uuid

\* delete(commentId)
Delete(id) ==
  IF ~Has(comments, id)
    THEN Fails("delete", id, "none", "false", "none")
    ELSE /\ comments' = MapDelete(comments, id)
         /\ emitted' = <<Ev("change", <<>>)>>
         /\ observed' = Observed(<<Ev("change", <<>>)>>, comments, MapDelete(comments, id))
         /\ Persist(MapDelete(comments, id))
         /\ lastOp' = Op("delete", id, "none", "true", Get(comments, id).status)
         /\ deleted' = deleted \cup {id}
         /\ UNCHANGED <<uuid, now>>

\* The reply object addReply() builds.
NewReply(id, from, text, t) ==
  [ id |-> id, from |-> from, text |-> text, createdAt |-> t, proposal |-> <<>> ]

\* The addReply() of the first version of the store (lines 121-134): it
\* never changes the status.
StatusAfterReplyNever(from, status) == status

\* An addReply() in which any user reply on a comment that is not pending
\* sends it back to pending.
StatusAfterReplyUserAlways(from, status) ==
  IF from = "agent" /\ status = "pending" THEN "answered"
  ELSE IF from = "user" THEN "pending" ELSE status

\* The status addReply() leaves on a comment that had the given status: an
\* agent reply answers a pending comment, then a user reply sends an
\* answered comment back to pending.
StatusAfterReply(from, status) ==
  LET s1 == IF from = "agent" /\ status = "pending" THEN "answered" ELSE status
  IN IF from = "user" /\ s1 = "answered" THEN "pending" ELSE s1

\* An addReply() that announces every user reply as a reopening.
ReplyReopensAnyUser(from, status) == from = "user"

\* Whether addReply() emits comment_reopened, given the status before it.
ReplyReopens(from, status) ==
  LET s1 == IF from = "agent" /\ status = "pending" THEN "answered" ELSE status
  IN from = "user" /\ s1 = "answered"

\* An addReply() that forgets the comment_reopened event.
ReplyEventsChangeOnly(c, from, prevStatus) == <<Ev("change", <<c>>)>>

\* The events addReply() emits: c is the comment after the call, prevStatus
\* its status before.
ReplyEvents(c, from, prevStatus) ==
  (IF ReplyReopens(from, prevStatus) THEN <<Ev("comment_reopened", <<c>>)>> ELSE <<>>)
    \o <<Ev("change", <<c>>)>>

\* addReply(commentId, from, text)
AddReply(id, from, text) ==
  IF ~Has(comments, id)
    THEN Fails("addReply", id, from, "null", "none")
    ELSE /\ uuid < MaxUuid
         /\ LET old == Get(comments, id)
                reply == NewReply(uuid + 1, from, text, now)
                c == [old EXCEPT !.replies = Append(old.replies, reply),
                                 !.status = StatusAfterReply(from, old.status)]
            IN Succeeds("addReply", from, "reply", old, c,
                        ReplyEvents(c, from, old.status))
         /\ uuid' = uuid + 1

\* An addProposalReply() that records the new text as the old one.
NewProposalOldIsNew(oldText, newText, explanation) ==
  [ oldText |-> newText, newText |-> newText,
    explanation |-> explanation, status |-> "pending" ]

\* The proposal object addProposalReply() builds.
NewProposal(oldText, newText, explanation) ==
  [ oldText |-> oldText, newText |-> newText,
    explanation |-> explanation, status |-> "pending" ]

\* An addProposalReply() that leaves the status as it is.
StatusAfterProposalKeeps(status) == status

\* The status addProposalReply() leaves.
StatusAfterProposal(status) ==
  IF status = "pending" THEN "answered" ELSE status

\* addProposalReply(commentId, newText, explanation)
AddProposalReply(id, newText, explanation) ==
  IF ~Has(comments, id)
    THEN Fails("addProposalReply", id, "agent", "null", "none")
    ELSE /\ uuid < MaxUuid
         /\ LET old == Get(comments, id)
                proposal == NewProposal(old.selectedText, newText, explanation)
                reply == [NewReply(uuid + 1, "agent", explanation, now)
                            EXCEPT !.proposal = <<proposal>>]
                c == [old EXCEPT !.replies = Append(old.replies, reply),
                                 !.status = StatusAfterProposal(old.status)]
            IN Succeeds("addProposalReply", "agent", "reply", old, c,
                        <<Ev("change", <<c>>)>>)
         /\ uuid' = uuid + 1

\* comment.replies.find((r) => r.id === replyId): the index of the first
\* reply with that id, 0 when there is none.
FindReply(replies, replyId) ==
  IF \E i \in 1..Len(replies) : replies[i].id = replyId
    THEN CHOOSE i \in 1..Len(replies) :
           /\ replies[i].id = replyId
           /\ \A j \in 1..(i - 1) : replies[j].id # replyId
    ELSE 0

\* An updateProposalStatus() that re-anchors the comment whatever the new
\* status is.
ProposalUpdatedAlwaysReanchors(c, k, status) ==
  LET p == c.replies[k].proposal[1]
  IN [c EXCEPT !.replies[k].proposal = <<[p EXCEPT !.status = status]>>,
               !.selectedText = p.newText, !.length = Len(p.newText)]

\* An updateProposalStatus() that, when it applies a proposal, also rewrites
\* the proposal's oldText to the text now anchored.
ProposalUpdatedRewritesOldText(c, k, status) ==
  LET p == c.replies[k].proposal[1]
  IN IF status = "applied"
       THEN [c EXCEPT !.replies[k].proposal =
                        <<[p EXCEPT !.status = status, !.oldText = p.newText]>>,
                      !.selectedText = p.newText, !.length = Len(p.newText)]
       ELSE [c EXCEPT !.replies[k].proposal = <<[p EXCEPT !.status = status]>>]

\* What updateProposalStatus() does to the comment whose k-th reply carries
\* the proposal.
ProposalUpdated(c, k, status) ==
  LET p == c.replies[k].proposal[1]
      c1 == [c EXCEPT !.replies[k].proposal = <<[p EXCEPT !.status = status]>>]
  IN IF status = "applied"
       THEN [c1 EXCEPT !.selectedText = p.newText, !.length = Len(p.newText)]
       ELSE c1

\* updateProposalStatus(commentId, replyId, status)
UpdateProposalStatus(id, replyId, status) ==
  IF ~Has(comments, id)
    THEN Fails("updateProposalStatus", id, "none", "false", "none")
    ELSE LET old == Get(comments, id)
             k == FindReply(old.replies, replyId)
         IN IF k = 0 \/ old.replies[k].proposal = <<>>
              THEN Fails("updateProposalStatus", id, "none", "false", old.status)
              ELSE LET c == ProposalUpdated(old, k, status)
                   IN /\ Succeeds("updateProposalStatus", "none", "true", old, c,
                                  <<Ev("change", <<c>>)>>)
                      /\ UNCHANGED uuid

\* ------------------------------------------------------------------ queries
\* The stable sort of getAll: results.sort((a, b) => a.offset - b.offset).
RECURSIVE SortByOffset(_)
SortByOffset(s) ==
  IF Len(s) <= 1 THEN s
  ELSE LET last == s[Len(s)]
           front == SortByOffset(SubSeq(s, 1, Len(s) - 1))
           keep == SelectSeq(front, LAMBDA c : c.offset <= last.offset)
           after == SelectSeq(front, LAMBDA c : c.offset > last.offset)
       IN keep \o <<last>> \o after

\* A getAll() that returns the comments in insertion order.
GetAllUnsorted(cs, file, status) ==
  LET r1 == IF file # "" THEN SelectSeq(cs, LAMBDA c : c.file = file) ELSE cs
  IN IF status # "" /\ status # "all"
       THEN SelectSeq(r1, LAMBDA c : c.status = status) ELSE r1

\* getAll(filter): file "" and status "" stand for an absent filter field.
GetAll(cs, file, status) ==
  LET r1 == IF file # "" THEN SelectSeq(cs, LAMBDA c : c.file = file) ELSE cs
      r2 == IF status # "" /\ status # "all"
              THEN SelectSeq(r1, LAMBDA c : c.status = status) ELSE r1
  IN SortByOffset(r2)

\* getForFile(file)
GetForFile(cs, file) == GetAll(cs, file, "")

\* --------------------------------------------------------------- strings
Max(a, b) == IF a >= b THEN a ELSE b
Min(a, b) == IF a <= b THEN a ELSE b

\* String.prototype.slice(start, end) for 0 <= start, 0 <= end.
Slice(s, start, end) ==
  LET e == Min(end, Len(s))
  IN IF start >= e THEN <<>> ELSE SubSeq(s, start + 1, e)

\* String.prototype.indexOf(t): the first 0-based position of t in s, or -1.
StrIndexOf(s, t) ==
  LET hits == { i \in 0..(Len(s) - Len(t)) : SubSeq(s, i + 1, i + Len(t)) = t }
  IN IF hits = {} THEN -1
     ELSE CHOOSE i \in hits : \A j \in hits : i <= j

\* An adjustOffsets() that forgets to add the start of the search region.
ReanchorRelative(c, newContent) ==
  IF c.selectedText = <<>> THEN c
  ELSE LET searchStart == Max(0, c.offset - SearchWindow)
           searchEnd == Min(Len(newContent), c.offset + c.length + SearchWindow)
           idx == StrIndexOf(Slice(newContent, searchStart, searchEnd), c.selectedText)
       IN IF idx # -1 THEN [c EXCEPT !.offset = idx] ELSE c

\* An adjustOffsets() that stretches a whole-file comment over the new
\* content instead of skipping it.
ReanchorWholeFileSpans(c, newContent) ==
  IF c.selectedText = <<>> THEN [c EXCEPT !.length = Len(newContent)]
  ELSE LET searchStart == Max(0, c.offset - SearchWindow)
           searchEnd == Min(Len(newContent), c.offset + c.length + SearchWindow)
           idx == StrIndexOf(Slice(newContent, searchStart, searchEnd), c.selectedText)
       IN IF idx # -1 THEN [c EXCEPT !.offset = searchStart + idx] ELSE c

\* An adjustOffsets() that moves the comment to the start of the search
\* region whenever the region holds the selected text.
ReanchorToRegion(c, newContent) ==
  IF c.selectedText = <<>> THEN c
  ELSE LET searchStart == Max(0, c.offset - SearchWindow)
           searchEnd == Min(Len(newContent), c.offset + c.length + SearchWindow)
           idx == StrIndexOf(Slice(newContent, searchStart, searchEnd), c.selectedText)
       IN IF idx # -1 THEN [c EXCEPT !.offset = searchStart] ELSE c

\* An adjustOffsets() that searches with lastIndexOf.
ReanchorLast(c, newContent) ==
  IF c.selectedText = <<>> THEN c
  ELSE LET searchStart == Max(0, c.offset - SearchWindow)
           searchEnd == Min(Len(newContent), c.offset + c.length + SearchWindow)
           searchRegion == Slice(newContent, searchStart, searchEnd)
           hits == { i \in 0..(Len(searchRegion) - Len(c.selectedText)) :
                       SubSeq(searchRegion, i + 1, i + Len(c.selectedText))
                         = c.selectedText }
       IN IF hits # {}
            THEN [c EXCEPT !.offset =
                    searchStart + (CHOOSE i \in hits : \A j \in hits : j <= i)]
            ELSE c

\* The body of the loop of adjustOffsets for one comment.
Reanchor(c, newContent) ==
  IF c.selectedText = <<>> THEN c
  ELSE LET searchStart == Max(0, c.offset - SearchWindow)
           searchEnd == Min(Len(newContent), c.offset + c.length + SearchWindow)
           searchRegion == Slice(newContent, searchStart, searchEnd)
           idx == StrIndexOf(searchRegion, c.selectedText)
       IN IF idx # -1 THEN [c EXCEPT !.offset = searchStart + idx] ELSE c

\* An adjustOffsets() that emits inside the loop.
AdjustEventsPerComment(fileComments) ==
  [k \in 1..Len(fileComments) |-> Ev("change", <<>>)]

\* The events adjustOffsets() emits once the loop over fileComments is done.
AdjustEvents(fileComments) == <<Ev("change", <<>>)>>

\* adjustOffsets(file, oldContent, newContent)
AdjustOffsets(file, oldContent, newContent) ==
  IF Len(GetForFile(comments, file)) = 0
    THEN Fails("adjustOffsets", 0, "none", "void", "none")
    ELSE /\ LET cs == [i \in 1..Len(comments) |->
                        IF comments[i].file = file
                          THEN Reanchor(comments[i], newContent)
                          ELSE comments[i]]
            IN /\ comments' = cs
               /\ observed' = Observed(AdjustEvents(GetForFile(comments, file)),
                                       comments, cs)
               /\ Persist(cs)
         /\ emitted' = AdjustEvents(GetForFile(comments, file))
         /\ lastOp' = Op("adjustOffsets", 0, "none", "void", "none")
         /\ UNCHANGED <<uuid, now, deleted>>

\* clear()
Clear ==
  /\ comments' = <<>>
  /\ emitted' = <<Ev("change", <<>>)>>
  /\ observed' = Observed(<<Ev("change", <<>>)>>, comments, <<>>)
  /\ Persist(<<>>)
  /\ lastOp' = Op("clear", 0, "none", "void", "none")
  /\ UNCHANGED <<uuid, now, deleted>>

\* ------------------------------------------------------------ specification
\* The comment ids a caller passes: those of the stored comments, those of
\* deleted comments, and one id that was never handed out.
CallIds == { comments[i].id : i \in 1..Len(comments) } \cup deleted \cup {uuid + 1}

\* The reply ids a caller passes: those of the stored replies and one id
\* that was never handed out.
ReplyIds ==
  UNION { { comments[i].replies[k].id : k \in 1..Len(comments[i].replies) } :
            i \in 1..Len(comments) } \cup {uuid + 1}

Next ==
  \/ \E i \in AddInputs, b \in Bodies : Add(i[1], i[2], i[3], i[4], b) /\ WriteThrough /\ NoWaiter
  \/ \E id \in CallIds : Resolve(id) /\ WriteThrough /\ NoWaiter
  \/ \E id \in CallIds : Reopen(id) /\ WriteThrough /\ NoWaiter
  \/ \E id \in CallIds : Delete(id) /\ WriteThrough /\ NoWaiter
  \/ \E id \in CallIds, from \in Parties, t \in ReplyTexts :
       AddReply(id, from, t) /\ WriteThrough /\ NoWaiter
  \/ \E id \in CallIds, nt \in NewTexts, e \in ReplyTexts :
       AddProposalReply(id, nt, e) /\ WriteThrough /\ NoWaiter
  \/ \E id \in CallIds, r \in ReplyIds, s \in ProposalStatuses :
       UpdateProposalStatus(id, r, s) /\ WriteThrough /\ NoWaiter
  \/ \E f \in Files, n \in Contents : AdjustOffsets(f, <<>>, n) /\ WriteThrough /\ NoWaiter
  \/ Clear /\ WriteThrough /\ NoWaiter

Spec == Init /\ [][Next]_vars

\* ------------------------------------------- specification: long contents
\* adjustOffsets on contents longer than the search window.  The store
\* starts with two range-anchored comments of a.md, as two add() calls
\* leave them: one on the single character w at a given offset, one on
\* "world" at offset 10 of "hello hey world foo".
AnchorLen == 600

World == <<"w", "o", "r", "l", "d">>

HelloOld ==
  <<"h", "e", "l", "l", "o", " ", "h", "e", "y", " ", "w", "o", "r", "l", "d", " ", "f", "o", "o">>

HelloNew ==
  <<"h", "e", "l", "l", "o", " ", "h", "e", "y", " ", "t", "h", "e", "r", "e", " ", "w", "o", "r", "l", "d", " ", "f", "o", "o", " ", "b", "a", "r">>

\* A content of n characters with a w at the 0-based positions P.
Dots(n, P) == [i \in 1..n |-> IF (i - 1) \in P THEN "w" ELSE "."]

\* Offsets at which the w comment is created.
AnchorOffsets == {0, 300, 650}

\* Lengths with which the w comment is created: add() stores the length it
\* is given, whatever the selected text.
AnchorLengths == {1, 3}

\* Positions of a single w: around the edges of the windows of the offsets.
AnchorPositions ==
  {0, 1, 99, 100, 101, 199, 200, 201, 299, 300, 301, 399, 400, 401, 402,
   499, 500, 501, 502, 599}

AnchorContents ==
  { Dots(AnchorLen, {p}) : p \in AnchorPositions }
    \cup { Dots(AnchorLen, P) : P \in {{}, {99, 501}, {100, 500}, {0, 599}} }
    \cup { Dots(50, {10}), HelloOld, HelloNew }

InitAnchor ==
  /\ \E o \in AnchorOffsets, l \in AnchorLengths :
       comments = << NewComment(1, "a.md", o, l, <<"w">>, "c", 0),
                     NewComment(2, "a.md", 10, 5, World, "c", 0) >>
  /\ uuid = 2
  /\ now = 0
  /\ lastWriteTime = 0
  /\ disk = <<JsonStringify(comments)>>
  /\ issued = <<>>
  /\ writing = <<>>
  /\ pendingLast = FALSE
  /\ reading = FALSE
  /\ loaded = <<>>
  /\ emitted = <<>>
  /\ observed = <<>>
  /\ lastOp = Op("init", 0, "none", "void", "none")
  /\ deleted = {}
  /\ InitWait

NextAnchor ==
  \E f \in Files, n \in AnchorContents : AdjustOffsets(f, <<>>, n) /\ WriteThrough /\ NoWaiter

SpecAnchor == InitAnchor /\ [][NextAnchor]_vars

\* ------------------------------------- specification: wait_for_comment
\* The wait_for_comment tool of the MCP server on top of the store: one
\* consumer, one call at a time.

\* A formatCommentPayload() that records that the comment was returned but
\* not how many replies it had.
SeenWithoutCount(counts, c) ==
  [id \in DOMAIN counts \cup {c.id} |-> IF id = c.id THEN 0 ELSE counts[id]]

\* lastSeenReplyCounts.set(comment.id, replies.length)
Seen(counts, c) ==
  [id \in DOMAIN counts \cup {c.id} |->
     IF id = c.id THEN Len(c.replies) ELSE counts[id]]

\* A formatCommentPayload() that attaches the text of the last reply,
\* whoever wrote it.
LatestUserReplyAnyParty(c, event) ==
  IF event = "follow_up" /\ Len(c.replies) > 0
    THEN <<c.replies[Len(c.replies)].text>>
    ELSE <<>>

\* payload.latestUserReply: set for a follow_up whose comment has a reply
\* from the user, to the text of the last such reply.
LatestUserReply(c, event) ==
  LET userReplies == SelectSeq(c.replies, LAMBDA r : r.from = "user")
  IN IF event = "follow_up" /\ Len(c.replies) > 0 /\ Len(userReplies) > 0
       THEN <<userReplies[Len(userReplies)].text>>
       ELSE <<>>

\* formatCommentPayload(comment, event): the payload returned; it also
\* records the reply count, see Seen.
FormatCommentPayload(c, event) ==
  [Result("comment", event, <<c>>, 0) EXCEPT
     !.latestUserReply = LatestUserReply(c, event)]

\* A backlog check without the bookkeeping: every pending comment is due.
DueAlways(counts, c) == TRUE

\* Whether the backlog check returns the pending comment c: it was never
\* returned, or has more replies than when it was last returned.
Due(counts, c) ==
  c.id \notin DOMAIN counts \/ Len(c.replies) > counts[c.id]

\* A call without the backlog check: it finds nothing to return.
FirstDueNone(pending, counts) == 0

\* The loop over the pending comments: the index of the first one that is
\* due, 0 when none is.
FirstDue(pending, counts) ==
  IF \E k \in 1..Len(pending) : Due(counts, pending[k])
    THEN CHOOSE k \in 1..Len(pending) :
           /\ Due(counts, pending[k])
           /\ \A j \in 1..(k - 1) : ~Due(counts, pending[j])
    ELSE 0

\* The tag the backlog check gives the comment it returns.
BacklogEvent(counts, c) ==
  IF c.id \notin DOMAIN counts THEN "new_comment" ELSE "follow_up"

\* The timeout argument of a call (seconds; <<>> = not given) and the state
\* of the abort signal the MCP SDK hands it.
Timeouts == { <<>>, <<1>> }

Signals == { "none", "live", "aborted" }

DefaultTimeout == 30

\* const maxWait = (timeout ?? 30) * 1000
MaxWait(timeout) ==
  (IF timeout = <<>> THEN DefaultTimeout ELSE timeout[1]) * 1000

\* A cleanup() that leaves the comment_reopened listener registered.
CleanupListenersKeepsReopened(ls) == ls \cap {"comment_reopened"}

\* cleanup(): store.off() for both store listeners and
\* removeEventListener for the abort handler.
CleanupListeners(ls) == {}

\* A cleanup() without the clearTimeout.
CleanupTimerKeeps(t) == t

\* cleanup(): clearTimeout(timer).
CleanupTimer(t) == <<>>

\* store.on("new_comment"), store.on("comment_reopened") and, when the call
\* has a signal, signal.addEventListener("abort").
Registered(signal) ==
  {"new_comment", "comment_reopened"} \cup
    (IF signal = "none" THEN {} ELSE {"abort"})

\* resolve(value) of the call's Promise: the first call settles it, a later
\* one is ignored.
ResolvePromise(value) ==
  /\ result' = (IF waiting THEN value ELSE result)
  /\ quiet' = (IF waiting THEN TRUE ELSE quiet)
  /\ waiting' = FALSE
  /\ settled' = settled + 1

\* A call of wait_for_comment: the backlog check, then the Promise with its
\* timer and listeners; a signal that is already aborted runs onAbort at
\* once.
WaitForComment(timeout, signal) ==
  /\ ~waiting
  /\ LET pending == GetAll(comments, "", "pending")
         k == FirstDue(pending, lastSeenReplyCounts)
     IN IF k # 0
          THEN /\ result' = FormatCommentPayload(
                               pending[k], BacklogEvent(lastSeenReplyCounts, pending[k]))
               /\ lastSeenReplyCounts' = Seen(lastSeenReplyCounts, pending[k])
               /\ waiting' = FALSE
               /\ quiet' = TRUE
               /\ settled' = 1
               /\ UNCHANGED <<listeners, timer>>
          ELSE IF signal = "aborted"
            THEN /\ listeners' = CleanupListeners(Registered(signal))
                 /\ timer' = CleanupTimer(<<MaxWait(timeout)>>)
                 /\ result' = Result("cancelled", "none", <<>>, 0)
                 /\ quiet' = TRUE
                 /\ waiting' = FALSE
                 /\ settled' = 1
                 /\ UNCHANGED lastSeenReplyCounts
            ELSE /\ listeners' = Registered(signal)
                 /\ timer' = <<MaxWait(timeout)>>
                 /\ waiting' = TRUE
                 /\ settled' = 0
                 /\ UNCHANGED <<lastSeenReplyCounts, result, quiet>>
  /\ UNCHANGED <<storeVars, listed>>

\* A count over the comments of every status.
PendingCountAnyStatus(cs) == Len(GetAll(cs, "", ""))

\* const count = store.getAll({ status: "pending" }).length
PendingCount(cs) == Len(GetAll(cs, "", "pending"))

\* The text the timer callback resolves with: one of two templates, the
\* first with the count in it.
TimeoutText(count) ==
  IF count > 0
    THEN <<"Timeout, but ", count, " pending comment(s) exist.">>
    ELSE <<"No new comments yet.">>

\* The timer fires: cleanup(), count the pending comments, resolve with the
\* timeout text.  A timer fires once.
Timeout ==
  /\ timer # <<>>
  /\ timer' = <<>>
  /\ listeners' = CleanupListeners(listeners)
  /\ LET count == PendingCount(comments)
     IN ResolvePromise([Result("timeout", "none", <<>>, count) EXCEPT
                         !.text = TimeoutText(count)])
  /\ UNCHANGED <<storeVars, lastSeenReplyCounts, listed>>

\* onAbort: the client cancels the call; cleanup(), resolve with the
\* cancellation text.
Abort ==
  /\ "abort" \in listeners
  /\ listeners' = CleanupListeners(listeners)
  /\ timer' = CleanupTimer(timer)
  /\ ResolvePromise(Result("cancelled", "none", <<>>, 0))
  /\ UNCHANGED <<storeVars, lastSeenReplyCounts, listed>>

\* A listener that tags every comment new_comment.
ListenerEventAlwaysNew(type) == "new_comment"

\* The tag a listener gives the comment of the event it handles.
ListenerEvent(type) == IF type = "new_comment" THEN "new_comment" ELSE "follow_up"

\* onNewComment / onReopened: what the events of one store operation do to
\* the registered listeners.  The first event a listener handles runs
\* cleanup(), formats the comment and resolves the call.
Dispatch(events) ==
  LET heard == { k \in 1..Len(events) : events[k].type \in listeners }
  IN /\ IF heard # {}
          THEN LET k == CHOOSE j \in heard : \A i \in heard : j <= i
                   c == events[k].payload[1]
               IN /\ listeners' = CleanupListeners(listeners)
                  /\ timer' = CleanupTimer(timer)
                  /\ lastSeenReplyCounts' = Seen(lastSeenReplyCounts, c)
                  /\ ResolvePromise(FormatCommentPayload(c, ListenerEvent(events[k].type)))
          ELSE /\ quiet' = (quiet /\ events = <<>>)
               /\ UNCHANGED <<lastSeenReplyCounts, waiting, listeners, timer,
                              settled, result>>
     /\ UNCHANGED listed

\* The comments the preview creates in this specification: range-anchored.
WaitAddInputs == { i \in AddInputs : i[4] # <<>> }

\* The replies of this specification: the user's have two possible texts.
WaitReplies == { <<"user", "r">>, <<"user", "s">>, <<"agent", "r">> }

\* The ids the preview and the agent pass: those of the stored comments.
StoredIds == { comments[i].id : i \in 1..Len(comments) }

\* The store operations of the preview and the agent, each followed by the
\* listeners of a blocked call, and the steps of wait_for_comment.
NextWaitOver(replies) ==
  \/ \E i \in WaitAddInputs, b \in Bodies :
       Add(i[1], i[2], i[3], i[4], b) /\ WriteThrough /\ Dispatch(emitted')
         /\ NoOtherTool
  \/ \E id \in StoredIds, r \in replies :
       AddReply(id, r[1], r[2]) /\ WriteThrough /\ Dispatch(emitted')
         /\ NoOtherTool
  \/ \E id \in StoredIds :
       Resolve(id) /\ WriteThrough /\ Dispatch(emitted') /\ NoOtherTool
  \/ \E id \in StoredIds :
       Reopen(id) /\ WriteThrough /\ Dispatch(emitted') /\ NoOtherTool
  \/ \E id \in StoredIds :
       Delete(id) /\ WriteThrough /\ Dispatch(emitted') /\ NoOtherTool
  \/ \E t \in Timeouts, sg \in Signals : WaitForComment(t, sg) /\ NoOtherTool
  \/ Timeout /\ NoOtherTool
  \/ Abort /\ NoOtherTool

NextWait == NextWaitOver(WaitReplies)

SpecWait == Init /\ [][NextWait]_vars

\* The replies of the specification with a running event loop: one text.
TimerReplies == { <<"user", "r">>, <<"agent", "r">> }

NextWaitFair == NextWaitOver(TimerReplies)

\* The event loop runs: an armed timer that is not cleared fires.
SpecWaitFair == Init /\ [][NextWaitFair]_vars /\ WF_vars(Timeout /\ NoOtherTool)

\* The get_pending_comments tool next to wait_for_comment.

\* The file and status arguments of a call ("" = not given).
ListFiles == { "", "a.md", "b.md" }

ListStatuses == { "", "pending", "answered", "resolved", "all" }

\* The text get_pending_comments returns: a fixed sentence for an empty
\* list, else the comments as JSON.
ListingText(cs) ==
  IF Len(cs) = 0 THEN <<"No comments found.">> ELSE <<"json", cs>>

\* filter.status = status ?? "pending"; store.getAll(filter)
Listing(cs, file, status) ==
  GetAll(cs, file, IF status = "" THEN "pending" ELSE status)

\* A get_pending_comments that records what it lists as returned.
GetPendingCommentsMarksSeen(file, status) ==
  LET cs == Listing(comments, file, status)
      ids == { cs[k].id : k \in 1..Len(cs) }
  IN /\ listed' = ListingText(cs)
     /\ lastSeenReplyCounts' =
          [id \in DOMAIN lastSeenReplyCounts \cup ids |->
             IF id \in ids THEN Len(Get(comments, id).replies)
             ELSE lastSeenReplyCounts[id]]
     /\ UNCHANGED <<storeVars, waiting, listeners, timer, settled, result, quiet>>

\* A call of get_pending_comments.
GetPendingComments(file, status) ==
  /\ listed' = ListingText(Listing(comments, file, status))
  /\ UNCHANGED <<storeVars, lastSeenReplyCounts, waiting, listeners, timer,
                 settled, result, quiet>>

NextList ==
  \/ \E i \in WaitAddInputs, b \in Bodies :
       Add(i[1], i[2], i[3], i[4], b) /\ WriteThrough /\ Dispatch(emitted')
         /\ NoOtherTool
  \/ \E id \in StoredIds, r \in TimerReplies :
       AddReply(id, r[1], r[2]) /\ WriteThrough /\ Dispatch(emitted')
         /\ NoOtherTool
  \/ \E id \in StoredIds :
       Resolve(id) /\ WriteThrough /\ Dispatch(emitted') /\ NoOtherTool
  \/ WaitForComment(<<>>, "none") /\ NoOtherTool
  \/ Timeout /\ NoOtherTool
  \/ \E f \in ListFiles, st \in ListStatuses :
       GetPendingComments(f, st) /\ NoOtherTool

SpecList == Init /\ [][NextList]_vars

\* ---------------------------------------------- specification: reload
\* reload() against a file that another process sharing the project
\* directory rewrites, removes or leaves half-written.

\* for (const c of arr) this.comments.set(c.id, c)
RECURSIVE SetAll(_, _)
SetAll(cs, arr) ==
  IF arr = <<>> THEN cs ELSE SetAll(MapSet(cs, Head(arr)), Tail(arr))

\* A reload() that announces every comment of the file.
ReloadEventsForAll(arr, old) ==
  [k \in 1..Len(arr) |-> Ev("new_comment", <<arr[k]>>)] \o <<Ev("change", <<>>)>>

\* The events reload() emits after a successful parse: new_comment for each
\* element of the array whose id the old map did not have, then change.
ReloadEvents(arr, old) ==
  SelectSeq([k \in 1..Len(arr) |-> Ev("new_comment", <<arr[k]>>)],
            LAMBDA e : ~Has(old, e.payload[1].id))
    \o <<Ev("change", <<>>)>>

\* A catch block that leaves the map as it is.
ReloadFailedKeeps(cs) == cs

\* The catch block of reload(): this.comments.clear().
ReloadFailed(cs) == <<>>

\* reload() up to its await: the read of the file is under way.
ReloadCall ==
  /\ ~reading
  /\ reading' = TRUE
  /\ UNCHANGED <<comments, uuid, now, lastWriteTime, disk, issued, writing,
                 pendingLast, loaded, emitted, observed, lastOp, deleted>>

\* reload() from the completion of readFile on: the file as it is then is
\* parsed and replaces the map, or its absence or a parse error clears the
\* map.  Nothing is written.
ReloadApply ==
  /\ reading
  /\ reading' = FALSE
  /\ IF disk # <<>> /\ disk[1].parses
       THEN LET arr == JsonParse(disk[1])
                cs == SetAll(<<>>, arr)
            IN /\ comments' = cs
               /\ emitted' = ReloadEvents(arr, comments)
               /\ observed' = Observed(ReloadEvents(arr, comments), comments, cs)
       ELSE /\ comments' = ReloadFailed(comments)
            /\ emitted' = <<Ev("change", <<>>)>>
            /\ observed' =
                 Observed(<<Ev("change", <<>>)>>, comments, ReloadFailed(comments))
  /\ lastOp' = Op("reload", 0, "none", "void", "none")
  /\ issued' = <<>>
  /\ UNCHANGED <<uuid, now, lastWriteTime, disk, writing, pendingLast, loaded,
                 deleted>>

\* What the other process can leave in the file, given the array the file
\* holds (none when it is missing or does not parse): that array with a new
\* comment, without its first comment, or with its first comment resolved.
OtherCopies(arr, id) ==
  { Append(arr, NewComment(id, "a.md", 0, 1, <<"x">>, "c", now)) }
    \cup (IF arr = <<>> THEN {}
          ELSE { Tail(arr), <<Resolved(Head(arr), now)>> \o Tail(arr) })

\* The other process writes its copy: a valid array with distinct ids.
OtherWrites ==
  /\ uuid < MaxUuid
  /\ \E cs \in OtherCopies(IF disk # <<>> /\ disk[1].parses
                               THEN JsonParse(disk[1]) ELSE <<>>, uuid + 1) :
       /\ Len(cs) <= MaxComments
       /\ disk' = <<JsonStringify(cs)>>
  /\ uuid' = uuid + 1
  /\ UNCHANGED <<comments, now, lastWriteTime, issued, writing, pendingLast,
                 reading, loaded, emitted, observed, lastOp, deleted>>

\* The file is removed, or is read while it is half-written.
OtherBreaks ==
  /\ \E d \in { <<>>, <<Garbled>> } : disk' = d /\ disk' # disk
  /\ UNCHANGED <<comments, uuid, now, lastWriteTime, issued, writing,
                 pendingLast, reading, loaded, emitted, observed, lastOp, deleted>>

NextReload ==
  \/ \E i \in WaitAddInputs, b \in Bodies :
       Add(i[1], i[2], i[3], i[4], b) /\ WriteThrough /\ NoWaiter
  \/ \E id \in StoredIds : Resolve(id) /\ WriteThrough /\ NoWaiter
  \/ \E id \in StoredIds : Delete(id) /\ WriteThrough /\ NoWaiter
  \/ ReloadCall /\ NoWaiter
  \/ ReloadApply /\ NoWaiter
  \/ OtherWrites /\ NoWaiter
  \/ OtherBreaks /\ NoWaiter

SpecReload == Init /\ [][NextReload]_vars

\* ----------------------------------------- specification: persistence
\* The store's operations with their writes in flight, and load() into a
\* fresh store on the same directory.  Nothing orders two writeFile calls
\* on the same path that are in flight together: either may complete last.

\* The sequence without its k-th element.
Without(seq, k) == SubSeq(seq, 1, k - 1) \o SubSeq(seq, k + 1, Len(seq))

\* One of the writes in flight completes: the file holds its text.
WriteLands(k) ==
  /\ k \in 1..Len(writing)
  /\ disk' = <<writing[k]>>
  /\ writing' = Without(writing, k)
  /\ pendingLast' = (pendingLast /\ k # Len(writing))
  /\ UNCHANGED <<comments, uuid, now, lastWriteTime, issued, reading, loaded,
                 emitted, observed, lastOp, deleted>>

\* load() of a new CommentStore(projectDir): the comments of the file, or
\* none when the file is missing or does not parse.
LoadFrom(d) ==
  IF d # <<>> /\ d[1].parses THEN SetAll(<<>>, JsonParse(d[1])) ELSE <<>>

\* A fresh store is constructed on the directory and loaded.
Load ==
  /\ loaded' = <<LoadFrom(disk)>>
  /\ UNCHANGED <<comments, uuid, now, lastWriteTime, disk, issued, writing,
                 pendingLast, reading, emitted, observed, lastOp, deleted>>

\* An operation is called while fewer than MaxInFlight writes are in flight.
CanWrite == Len(writing) < MaxInFlight

NextPersist ==
  \/ \E i \in WaitAddInputs, b \in Bodies :
       CanWrite /\ Add(i[1], i[2], i[3], i[4], b) /\ WriteBehind /\ NoWaiter
  \/ \E id \in StoredIds, nt \in NewTexts, e \in ReplyTexts :
       CanWrite /\ AddProposalReply(id, nt, e) /\ WriteBehind /\ NoWaiter
  \/ \E id \in StoredIds : CanWrite /\ Resolve(id) /\ WriteBehind /\ NoWaiter
  \/ \E id \in StoredIds : CanWrite /\ Delete(id) /\ WriteBehind /\ NoWaiter
  \/ \E k \in 1..MaxInFlight : WriteLands(k) /\ NoWaiter
  \/ Load /\ NoWaiter

SpecPersist == Init /\ [][NextPersist]_vars

\* ------------------------------------- specification: annotated file
\* get_file_with_annotations: the file's text with one marker per comment.
\* A text is a sequence of characters; each character of the result carries
\* where it came from (0: the file's content, otherwise the id of the
\* comment whose marker it belongs to), which the code's slicing and
\* concatenation carry along unchanged.

\* The content of the annotated file.
TestContent ==
  <<"H", "e", "l", "l", "o", " ", "w", "o", "r", "l", "d", ",", " ", "t", "h", "i", "s", " ", "i", "s", " ", "a", " ", "t", "e", "s", "t", " ", "f", "i", "l", "e", ".">>

\* The anchors the preview creates in that content: <<offset, length>>, the
\* selected text being content.slice(offset, offset + length).
AnnotateAnchors ==
  { <<0, 0>>, <<6, 5>>, <<0, 5>>, <<0, 11>>, <<0, 20>>, <<8, 5>>, <<13, 4>> }

\* The decimal digit that stands for an id in a marker.
Digits == <<"1", "2", "3", "4", "5", "6", "7", "8", "9">>

\* c.id.slice(0, 8): the first eight characters of the id.
IdSlice(id) == <<"0", "0", "0", "0", "0", "0", "0", Digits[id]>>

\* The characters of a text, each marked as coming from `of`.
From(text, of) == [k \in 1..Len(text) |-> [ch |-> text[k], of |-> of]]

\* `[COMMENT #${c.id.slice(0, 8)}: "${c.comment}"]`
Marker(c) ==
  <<"[", "C", "O", "M", "M", "E", "N", "T", " ", "#">> \o IdSlice(c.id)
    \o <<":", " ", "\"">> \o <<c.comment>> \o <<"\"", "]">>

\* `[FILE COMMENT #${c.id.slice(0, 8)}: "${c.comment}"]\n`
FileMarker(c) ==
  <<"[", "F", "I", "L", "E", " ", "C", "O", "M", "M", "E", "N", "T", " ", "#">> \o IdSlice(c.id)
    \o <<":", " ", "\"">> \o <<c.comment>> \o <<"\"", "]">> \o <<"\n">>

\* [...comments].sort((a, b) => b.offset - a.offset): stable, descending.
RECURSIVE SortByOffsetDescending(_)
SortByOffsetDescending(s) ==
  IF Len(s) <= 1 THEN s
  ELSE LET last == s[Len(s)]
           front == SortByOffsetDescending(SubSeq(s, 1, Len(s) - 1))
           keep == SelectSeq(front, LAMBDA c : c.offset >= last.offset)
           after == SelectSeq(front, LAMBDA c : c.offset < last.offset)
       IN keep \o <<last>> \o after

\* One turn of the loop of annotateFileWithComments on the text so far.
AnnotateOne(text, c) ==
  IF c.selectedText = <<>>
    THEN From(FileMarker(c), c.id) \o text
    ELSE LET end == c.offset + c.length
         IN Slice(text, 0, end) \o From(<<" ">> \o Marker(c), c.id)
              \o Slice(text, end, Len(text))

\* The loop over the sorted comments.
RECURSIVE AnnotateAll(_, _)
AnnotateAll(text, sorted) ==
  IF sorted = <<>> THEN text
  ELSE AnnotateAll(AnnotateOne(text, sorted[1]), Tail(sorted))

\* annotateFileWithComments(content, comments)
AnnotateFileWithComments(content, cs) ==
  AnnotateAll(From(content, 0), SortByOffsetDescending(cs))

\* get_file_with_annotations({file}) on a file that is read as content.
GetFileWithAnnotations(file, content) ==
  /\ annotated' = <<AnnotateFileWithComments(content, GetForFile(comments, file))>>
  /\ UNCHANGED <<storeVars, waitVars, watchVars, adjustedTo, humanSince, callVars>>

\* The preview adds comments on selections of the file and on the file as
\* a whole; the agent asks for the annotated file.
NextAnnotate ==
  \/ \E a \in AnnotateAnchors, b \in Bodies :
       Add("a.md", a[1], a[2], Slice(TestContent, a[1], a[1] + a[2]), b)
         /\ WriteThrough /\ NoWaiter
  \/ GetFileWithAnnotations("a.md", TestContent)

SpecAnnotate == Init /\ [][NextAnnotate]_vars

\* ------------------------------------------ specification: file watcher
\* startWatching(): the store watches its own file.  The clock advances in
\* steps of TickMs; a write that completes, the store's or another
\* process's, leaves a change for the watcher to report, and the watcher
\* reports it at some later time.

\* The guard window of the watcher's handlers, in ms.
GuardWindow == 200

\* The granularity of the clock, in ms, and the clock's reading at start.
TickMs == 100
StartTime == 1000

\* How many ticks a run lasts, how many changes may await their report, and
\* how many change events a run may emit.
MaxTicks == 4
MaxNotices == 2
MaxChanges == 3

\* A handler that takes every change for a foreign one.
OwnWriteNever(t, last) == FALSE

\* Date.now() - this.lastWriteTime < 200
OwnWrite(t, last) == t - last < GuardWindow

\* The change events among the events of one call.
Changes(evs) == Cardinality({ k \in 1..Len(evs) : evs[k].type = "change" })

\* store.on("change", listener): the listener counts the events of a step.
Listen == changesHeard' = changesHeard + Changes(emitted')

InitWatch ==
  /\ comments = <<>>
  /\ uuid = 0
  /\ now = StartTime
  /\ lastWriteTime = 0
  /\ disk = <<>>
  /\ issued = <<>>
  /\ writing = <<>>
  /\ pendingLast = FALSE
  /\ reading = FALSE
  /\ loaded = <<>>
  /\ emitted = <<>>
  /\ observed = <<>>
  /\ lastOp = Op("init", 0, "none", "void", "none")
  /\ deleted = {}
  /\ InitWait

\* Time passes.
Tick ==
  /\ now < StartTime + MaxTicks * TickMs
  /\ now' = now + TickMs
  /\ UNCHANGED <<comments, uuid, lastWriteTime, disk, issued, writing,
                 pendingLast, reading, loaded, emitted, observed, lastOp,
                 deleted>>

\* The file changed: the watcher will report it.
Noticed == notices < MaxNotices /\ notices' = notices + 1

\* this.watcher.on("change" | "add", ...): the watcher reports a change of
\* the file.  Within the guard window of the store's last persist the
\* handler returns; otherwise it calls reload().
WatcherChange ==
  /\ notices > 0
  /\ notices' = notices - 1
  /\ IF OwnWrite(now, lastWriteTime) THEN UNCHANGED storeVars ELSE ReloadCall
  /\ UNCHANGED <<waitVars, annotated, changesHeard, adjustedTo, humanSince,
                 callVars>>

\* What the steps of this specification leave alone.
Unwatched == UNCHANGED <<waitVars, annotated, adjustedTo, humanSince, callVars>>

NextWatch ==
  \/ \E i \in WaitAddInputs, b \in Bodies :
       /\ CanWrite /\ changesHeard < MaxChanges
       /\ Add(i[1], i[2], i[3], i[4], b) /\ WriteBehind
       /\ Listen /\ UNCHANGED notices /\ Unwatched
  \/ \E id \in StoredIds :
       /\ CanWrite /\ changesHeard < MaxChanges
       /\ Resolve(id) /\ WriteBehind
       /\ Listen /\ UNCHANGED notices /\ Unwatched
  \/ \E k \in 1..MaxInFlight :
       WriteLands(k) /\ Noticed /\ UNCHANGED changesHeard /\ Unwatched
  \/ OtherWrites /\ Noticed /\ UNCHANGED changesHeard /\ Unwatched
  \/ Tick /\ UNCHANGED <<notices, changesHeard>> /\ Unwatched
  \/ WatcherChange
  \/ changesHeard < MaxChanges /\ ReloadApply /\ Listen /\ UNCHANGED notices /\ Unwatched

SpecWatch == InitWatch /\ [][NextWatch]_vars

\* --------------------------------------- specification: repeated edits
\* adjustOffsets called again and again as the file is edited, on contents
\* in which the selected text of a comment occurs more than once.  The
\* store starts as in the specification of long contents.

\* The contents the file goes through: a single w, two of them 100 apart,
\* none, and the spec's example.
RepeatContents ==
  { Dots(AnchorLen, P) : P \in {{500}, {400, 500}, {300, 500}, {}} }
    \cup { HelloNew }

\* The file watcher reports (file, oldContent, newContent) and the server
\* hands it to adjustOffsets.
FileChanged(f, n) ==
  /\ AdjustOffsets(f, <<>>, n)
  /\ adjustedTo' =
       <<[file |-> f, content |-> n,
          again |-> (adjustedTo # <<>> /\ adjustedTo[1].file = f
                       /\ adjustedTo[1].content = n),
          moved |-> { comments[i].id : i \in { j \in 1..Len(comments) :
                        comments'[j].offset # comments[j].offset } }]>>
  /\ WriteThrough
  /\ UNCHANGED <<waitVars, annotated, watchVars, humanSince, callVars>>

NextRepeat == \E f \in Files, n \in RepeatContents : FileChanged(f, n)

SpecRepeat == InitAnchor /\ [][NextRepeat]_vars

\* ------------------------------------- specification: human follow-ups
\* The preview and the agent work on the comments while the agent calls
\* wait_for_comment; humanSince holds the ids of the comments the user has
\* replied to or reopened since wait_for_comment last returned them.

\* The step is a call of the store by the user that succeeded on comment id:
\* a reply of the user, or a reopen.
UserActs(id) ==
  /\ comments' # comments
  /\ lastOp'.id = id
  /\ \/ lastOp'.op = "addReply" /\ lastOp'.from = "user" /\ lastOp'.ret = "reply"
     \/ lastOp'.op = "reopen" /\ lastOp'.ret = "comment"

\* The step ends a call of wait_for_comment with comment id: a blocked call
\* is resolved by a listener, or the step is a call (call = TRUE) that comes
\* back from the backlog check.
Returns(id, call) ==
  /\ waiting \/ call
  /\ ~waiting'
  /\ result'.kind = "comment"
  /\ result'.comment[1].id = id

\* What a step does to humanSince.
Track(call) ==
  humanSince' =
    { id \in 1..MaxUuid : (id \in humanSince \/ UserActs(id)) /\ ~Returns(id, call) }

\* What the steps of this specification leave alone.
NoFollowUpTool == UNCHANGED <<annotated, watchVars, adjustedTo, callVars>>

NextFollowUp ==
  \/ \E i \in WaitAddInputs, b \in Bodies :
       Add(i[1], i[2], i[3], i[4], b) /\ WriteThrough /\ Dispatch(emitted')
         /\ Track(FALSE) /\ NoFollowUpTool
  \/ \E id \in StoredIds, r \in TimerReplies :
       AddReply(id, r[1], r[2]) /\ WriteThrough /\ Dispatch(emitted')
         /\ Track(FALSE) /\ NoFollowUpTool
  \/ \E id \in StoredIds, nt \in NewTexts, e \in ReplyTexts :
       AddProposalReply(id, nt, e) /\ WriteThrough /\ Dispatch(emitted')
         /\ Track(FALSE) /\ NoFollowUpTool
  \/ \E id \in StoredIds :
       Resolve(id) /\ WriteThrough /\ Dispatch(emitted')
         /\ Track(FALSE) /\ NoFollowUpTool
  \/ \E id \in StoredIds :
       Reopen(id) /\ WriteThrough /\ Dispatch(emitted')
         /\ Track(FALSE) /\ NoFollowUpTool
  \/ WaitForComment(<<>>, "none") /\ Track(TRUE) /\ NoFollowUpTool
  \/ Timeout /\ Track(FALSE) /\ NoFollowUpTool

SpecFollowUp == Init /\ [][NextFollowUp]_vars

\* ------------------------------------- specification: concurrent calls
\* Two wait_for_comment calls of one server: the MCP SDK runs the handler of
\* a request while that of an earlier request is still pending, so a second
\* call can be made while the first is blocked.  Both share
\* lastSeenReplyCounts; each has its own Promise, timer and listeners.  The
\* second call is made with the shorter timeout.  The comments come from the
\* preview (add) and from another process that rewrites the file, which the
\* watcher has the store reload.

\* How often one comment may be returned tagged new_comment in a run.
MaxReturns == 2

\* The second call: the backlog check, then its own Promise.
SecondCall ==
  /\ waiting /\ ~second.waiting
  /\ LET pending == GetAll(comments, "", "pending")
         k == FirstDue(pending, lastSeenReplyCounts)
     IN IF k # 0
          THEN /\ second' =
                    [waiting |-> FALSE,
                     result |-> FormatCommentPayload(
                                  pending[k], BacklogEvent(lastSeenReplyCounts, pending[k]))]
               /\ lastSeenReplyCounts' = Seen(lastSeenReplyCounts, pending[k])
          ELSE /\ second' = [second EXCEPT !.waiting = TRUE]
               /\ UNCHANGED lastSeenReplyCounts
  /\ UNCHANGED <<storeVars, waiting, listeners, timer, settled, result, quiet,
                 listed>>

\* onNewComment / onReopened of the second call: they run in the same emit
\* as those of the first call and find the same comment.
SecondDispatch(events) ==
  LET heardToo == { k \in 1..Len(events) :
                      events[k].type \in {"new_comment", "comment_reopened"} }
  IN IF second.waiting /\ heardToo # {}
       THEN LET k == CHOOSE j \in heardToo : \A i \in heardToo : j <= i
            IN second' =
                 [waiting |-> FALSE,
                  result |-> FormatCommentPayload(events[k].payload[1],
                                                  ListenerEvent(events[k].type))]
       ELSE UNCHANGED second

\* The timer of the second call fires.
SecondTimeout ==
  /\ second.waiting
  /\ LET count == PendingCount(comments)
     IN second' = [waiting |-> FALSE,
                   result |-> [Result("timeout", "none", <<>>, count) EXCEPT
                                 !.text = TimeoutText(count)]]
  /\ UNCHANGED <<storeVars, waitVars>>

\* The step ends the second call with comment id.
SecondReturns(id, call) ==
  /\ second.waiting \/ call
  /\ ~second'.waiting
  /\ second'.result.kind = "comment"
  /\ second'.result.comment[1].id = id

\* What a step does to newCalls; first and other tell whether the step is a
\* call of wait_for_comment, the first or the second.
CountNew(first, other) ==
  /\ newCalls' =
       [id \in 1..MaxUuid |->
          newCalls[id]
            + (IF Returns(id, first) /\ result'.event = "new_comment" THEN 1 ELSE 0)
            + (IF SecondReturns(id, other) /\ second'.result.event = "new_comment"
                 THEN 1 ELSE 0)]
  /\ \A id \in 1..MaxUuid : newCalls'[id] <= MaxReturns

\* The other process begins to rewrite the file with what it holds: until
\* the write is complete a reader finds a text that does not parse.
OtherBeginsWrite ==
  /\ disk # <<>> /\ disk[1].parses /\ disk[1].json # <<>>
  /\ disk' = <<[disk[1] EXCEPT !.parses = FALSE]>>
  /\ UNCHANGED <<comments, uuid, now, lastWriteTime, issued, writing,
                 pendingLast, reading, loaded, emitted, observed, lastOp, deleted>>

\* The other process's write is complete.
OtherEndsWrite ==
  /\ disk # <<>> /\ ~disk[1].parses /\ disk[1].json # <<>>
  /\ disk' = <<[disk[1] EXCEPT !.parses = TRUE]>>
  /\ UNCHANGED <<comments, uuid, now, lastWriteTime, issued, writing,
                 pendingLast, reading, loaded, emitted, observed, lastOp, deleted>>

\* What the steps of this specification leave alone.
NoCallTool == UNCHANGED <<annotated, watchVars, adjustedTo, humanSince>>

\* A step of the other process or the start of a reload: no call is touched.
NoCall == UNCHANGED <<waitVars, callVars>> /\ NoCallTool

NextCalls ==
  \/ \E i \in WaitAddInputs, b \in Bodies :
       /\ Add(i[1], i[2], i[3], i[4], b) /\ WriteThrough
       /\ Dispatch(emitted') /\ SecondDispatch(emitted')
       /\ CountNew(FALSE, FALSE) /\ NoCallTool
  \/ /\ ReloadApply
     /\ Dispatch(emitted') /\ SecondDispatch(emitted')
     /\ CountNew(FALSE, FALSE) /\ NoCallTool
  \/ ReloadCall /\ NoCall
  \/ OtherWrites /\ NoCall
  \/ OtherBeginsWrite /\ NoCall
  \/ OtherEndsWrite /\ NoCall
  \/ /\ WaitForComment(<<>>, "none")
     /\ UNCHANGED second /\ CountNew(TRUE, FALSE) /\ NoCallTool
  \/ SecondCall /\ CountNew(FALSE, TRUE) /\ NoCallTool
  \/ /\ ~second.waiting /\ Timeout
     /\ UNCHANGED callVars /\ NoCallTool
  \/ SecondTimeout /\ UNCHANGED newCalls /\ NoCallTool

SpecCalls == Init /\ [][NextCalls]_vars

\* ------------------------------------------------------------------ claims
\* How many events of one type a call emitted.
Count(evs, type) == Cardinality({ k \in 1..Len(evs) : evs[k].type = type })

\* new is old with exactly one reply appended.
Appended(old, new) ==
  /\ Len(new.replies) = Len(old.replies) + 1
  /\ SubSeq(new.replies, 1, Len(old.replies)) = old.replies

LastReply(c) == c.replies[Len(c.replies)]

\* Every stored comment other than id is what it was.
OthersUnchanged(id) ==
  \A i \in 1..Len(comments) :
    comments[i].id # id =>
      Has(comments', comments[i].id) /\ Get(comments', comments[i].id) = comments[i]

\* C1: after any sequence of store operations every stored comment has
\* resolvedAt non-null exactly when its status is resolved.
ResolvedAtIffResolved ==
  \A i \in 1..Len(comments) :
    (comments[i].resolvedAt # <<>>) <=> (comments[i].status = "resolved")

\* A comment has just been reopened while another one is resolved.
ResolvedAtIffResolvedWitness ==
  /\ lastOp.op = "reopen" /\ lastOp.ret = "comment"
  /\ Has(comments, lastOp.id)
  /\ Get(comments, lastOp.id).resolvedAt = <<>>
  /\ \E i \in 1..Len(comments) :
       comments[i].status = "resolved" /\ comments[i].resolvedAt # <<>>

\* C2: add() always returns a comment; the comment has an id no stored or
\* deleted comment and no reply carries, is pending with no replies and a
\* null resolvedAt, carries the anchor it was given, leaves the other
\* comments alone, and exactly one change and one new_comment event are
\* emitted for it.
AddCreatesPendingComment ==
  [][\A i \in AddInputs, b \in Bodies :
       Add(i[1], i[2], i[3], i[4], b) =>
         LET id == lastOp'.id IN
         /\ lastOp'.ret = "comment"
         /\ ~Has(comments, id) /\ id \notin deleted
         /\ \A j \in 1..Len(comments), k \in 1..MaxUuid :
              k <= Len(comments[j].replies) => comments[j].replies[k].id # id
         /\ Has(comments', id)
         /\ Len(comments') = Len(comments) + 1
         /\ OthersUnchanged(id)
         /\ LET c == Get(comments', id) IN
            /\ c.status = "pending" /\ c.replies = <<>> /\ c.resolvedAt = <<>>
            /\ c.file = i[1] /\ c.offset = i[2] /\ c.length = i[3]
            /\ c.selectedText = i[4] /\ c.comment = b
            /\ Count(emitted', "change") = 1
            /\ Count(emitted', "new_comment") = 1
            /\ Len(emitted') = 2
            /\ \A k \in 1..Len(emitted') : emitted'[k].payload = <<c>>]_vars

\* A second comment has just been added after an earlier one was deleted.
AddCreatesPendingCommentWitness ==
  /\ lastOp.op = "add" /\ lastOp.ret = "comment"
  /\ Has(comments, lastOp.id)
  /\ Len(comments) = 2
  /\ deleted # {}
  /\ Count(emitted, "new_comment") = 1

\* C3: an agent reply on a pending comment appends the reply and makes the
\* comment answered.
AgentReplyAnswersPending ==
  [][\A id \in CallIds, t \in ReplyTexts :
       (/\ AddReply(id, "agent", t)
        /\ Has(comments, id)
        /\ Get(comments, id).status = "pending") =>
         /\ Has(comments', id)
         /\ Get(comments', id).status = "answered"
         /\ Appended(Get(comments, id), Get(comments', id))
         /\ LastReply(Get(comments', id)).from = "agent"
         /\ LastReply(Get(comments', id)).text = t]_vars

AgentReplyAnswersPendingWitness ==
  /\ lastOp.op = "addReply" /\ lastOp.from = "agent" /\ lastOp.ret = "reply"
  /\ lastOp.prevStatus = "pending"
  /\ Has(comments, lastOp.id)
  /\ Get(comments, lastOp.id).status = "answered"

\* C4: a user reply on an answered comment makes it pending, and the call
\* emits exactly one comment_reopened event, whose comment is already
\* pending.
UserReplyReopensAnswered ==
  [][\A id \in CallIds, t \in ReplyTexts :
       (/\ AddReply(id, "user", t)
        /\ Has(comments, id)
        /\ Get(comments, id).status = "answered") =>
         /\ Has(comments', id)
         /\ Get(comments', id).status = "pending"
         /\ Count(emitted', "comment_reopened") = 1
         /\ \A k \in 1..Len(emitted') :
              emitted'[k].type = "comment_reopened" =>
                /\ emitted'[k].payload = <<Get(comments', id)>>
                /\ emitted'[k].payload[1].status = "pending"]_vars

UserReplyReopensAnsweredWitness ==
  /\ lastOp.op = "addReply" /\ lastOp.from = "user" /\ lastOp.ret = "reply"
  /\ lastOp.prevStatus = "answered"
  /\ Has(comments, lastOp.id)
  /\ Get(comments, lastOp.id).status = "pending"
  /\ Count(emitted, "comment_reopened") = 1

\* C5: a user reply on a pending comment appends the reply, leaves the
\* comment pending and emits no comment_reopened event.
UserReplyKeepsPending ==
  [][\A id \in CallIds, t \in ReplyTexts :
       (/\ AddReply(id, "user", t)
        /\ Has(comments, id)
        /\ Get(comments, id).status = "pending") =>
         /\ Has(comments', id)
         /\ Get(comments', id).status = "pending"
         /\ Appended(Get(comments, id), Get(comments', id))
         /\ LastReply(Get(comments', id)).from = "user"
         /\ Count(emitted', "comment_reopened") = 0]_vars

UserReplyKeepsPendingWitness ==
  /\ lastOp.op = "addReply" /\ lastOp.from = "user" /\ lastOp.ret = "reply"
  /\ lastOp.prevStatus = "pending"
  /\ Has(comments, lastOp.id)
  /\ Get(comments, lastOp.id).status = "pending"
  /\ Len(Get(comments, lastOp.id).replies) >= 1
  /\ Count(emitted, "comment_reopened") = 0

\* C6: an agent reply on an answered or resolved comment changes nothing of
\* the comment but its replies, to which it appends, and emits no
\* comment_reopened; and a reply of either party, with or without a
\* proposal, leaves a resolved comment resolved with its resolvedAt.
AgentReplyOnlyAppends ==
  [][/\ \A id \in CallIds, t \in ReplyTexts :
          (/\ AddReply(id, "agent", t)
           /\ Has(comments, id)
           /\ Get(comments, id).status \in {"answered", "resolved"}) =>
            /\ Has(comments', id)
            /\ Appended(Get(comments, id), Get(comments', id))
            /\ [Get(comments', id) EXCEPT !.replies = <<>>]
                 = [Get(comments, id) EXCEPT !.replies = <<>>]
            /\ Count(emitted', "comment_reopened") = 0
     /\ \A id \in CallIds :
          (/\ Has(comments, id)
           /\ Get(comments, id).status = "resolved"
           /\ \/ \E from \in Parties, t \in ReplyTexts : AddReply(id, from, t)
              \/ \E nt \in NewTexts, e \in ReplyTexts : AddProposalReply(id, nt, e)) =>
            /\ Has(comments', id)
            /\ Get(comments', id).status = "resolved"
            /\ Get(comments', id).resolvedAt = Get(comments, id).resolvedAt
            /\ Count(emitted', "comment_reopened") = 0]_vars

\* An agent has just replied on a resolved comment, which stays resolved.
AgentReplyOnlyAppendsWitness ==
  /\ lastOp.op = "addReply" /\ lastOp.from = "agent" /\ lastOp.ret = "reply"
  /\ lastOp.prevStatus = "resolved"
  /\ Has(comments, lastOp.id)
  /\ Get(comments, lastOp.id).status = "resolved"
  /\ Get(comments, lastOp.id).resolvedAt # <<>>

\* C7: resolve() on a stored comment makes it resolved with a non-null
\* resolvedAt whatever its status was; on an unknown id it returns null,
\* emits nothing and changes neither the store nor the file.
ResolveSetsResolved ==
  [][\A id \in CallIds :
       Resolve(id) =>
         IF Has(comments, id)
           THEN /\ lastOp'.ret = "comment"
                /\ Has(comments', id)
                /\ Get(comments', id).status = "resolved"
                /\ Get(comments', id).resolvedAt # <<>>
           ELSE /\ lastOp'.ret = "null"
                /\ comments' = comments
                /\ emitted' = <<>>
                /\ disk' = disk]_vars

\* An answered comment has just been resolved.
ResolveSetsResolvedWitness ==
  /\ lastOp.op = "resolve" /\ lastOp.ret = "comment"
  /\ lastOp.prevStatus = "answered"
  /\ Has(comments, lastOp.id)
  /\ Get(comments, lastOp.id).status = "resolved"
  /\ Get(comments, lastOp.id).resolvedAt # <<>>

\* C8: reopen() succeeds exactly when the comment is stored and resolved:
\* then the comment becomes pending with a null resolvedAt and one
\* comment_reopened event is emitted for it; otherwise it returns null,
\* emits nothing and leaves the store as it was.
ReopenOnlyFromResolved ==
  [][\A id \in CallIds :
       Reopen(id) =>
         IF Has(comments, id) /\ Get(comments, id).status = "resolved"
           THEN /\ lastOp'.ret = "comment"
                /\ Has(comments', id)
                /\ Get(comments', id).status = "pending"
                /\ Get(comments', id).resolvedAt = <<>>
                /\ Count(emitted', "comment_reopened") = 1
                /\ \A k \in 1..Len(emitted') :
                     emitted'[k].type = "comment_reopened" =>
                       emitted'[k].payload = <<Get(comments', id)>>
           ELSE /\ lastOp'.ret = "null"
                /\ comments' = comments
                /\ emitted' = <<>>]_vars

\* reopen() has just been refused on an answered comment.
ReopenOnlyFromResolvedWitness ==
  /\ lastOp.op = "reopen" /\ lastOp.ret = "null"
  /\ lastOp.prevStatus = "answered"
  /\ Has(comments, lastOp.id)
  /\ Get(comments, lastOp.id).status = "answered"

\* The calls that take the id of a comment, other than add().
IdCalls ==
  {"resolve", "reopen", "delete", "addReply", "addProposalReply", "updateProposalStatus"}

\* C9: under the store's operations an id that delete() removed is never
\* stored again: get() returns null for it, and every later call on it
\* returns its not-found result (null, or false for delete and
\* updateProposalStatus), emits nothing and changes no comment.
DeletedStaysUnknown ==
  [][/\ \A id \in deleted' : ~Has(comments', id) /\ StoreGet(comments', id) = <<>>
     /\ (lastOp'.op \in IdCalls /\ lastOp'.id \in deleted) =>
          /\ lastOp'.ret = IF lastOp'.op \in {"delete", "updateProposalStatus"}
                             THEN "false" ELSE "null"
          /\ emitted' = <<>>
          /\ comments' = comments]_vars

\* A reply to a deleted comment has just been refused, in a store that
\* holds a comment added after the deletion.
DeletedStaysUnknownWitness ==
  /\ lastOp.op = "addReply" /\ lastOp.ret = "null"
  /\ lastOp.id \in deleted
  /\ \E i \in 1..Len(comments) : comments[i].id > lastOp.id

\* C10: addProposalReply() on a whole-file comment (empty selectedText)
\* returns null, appends no reply and leaves the status as it was.
ProposalOnWholeFileFails ==
  [][\A id \in CallIds, nt \in NewTexts, e \in ReplyTexts :
       (/\ AddProposalReply(id, nt, e)
        /\ Has(comments, id)
        /\ Get(comments, id).selectedText = <<>>) =>
         /\ lastOp'.ret = "null"
         /\ comments' = comments]_vars

\* C11: a successful addProposalReply() appends exactly one reply, from the
\* agent, carrying a pending proposal whose oldText is the selectedText the
\* comment had when the call was made and whose newText is the argument; a
\* pending comment becomes answered and any other status is kept.
ProposalReplyCarriesProposal ==
  [][\A id \in CallIds, nt \in NewTexts, e \in ReplyTexts :
       (AddProposalReply(id, nt, e) /\ Has(comments, id)) =>
         LET old == Get(comments, id) IN
         /\ lastOp'.ret = "reply"
         /\ Has(comments', id)
         /\ Appended(old, Get(comments', id))
         /\ LET r == LastReply(Get(comments', id)) IN
            /\ r.from = "agent"
            /\ r.proposal # <<>>
            /\ r.proposal[1].oldText = old.selectedText
            /\ r.proposal[1].newText = nt
            /\ r.proposal[1].status = "pending"
         /\ Get(comments', id).status =
              IF old.status = "pending" THEN "answered" ELSE old.status]_vars

\* A second proposal has just been made on a comment whose first proposal
\* was applied: its oldText is the text the first one anchored.
ProposalReplyCarriesProposalWitness ==
  /\ lastOp.op = "addProposalReply" /\ lastOp.ret = "reply"
  /\ Has(comments, lastOp.id)
  /\ LET c == Get(comments, lastOp.id) IN
     /\ Len(c.replies) = 2
     /\ c.replies[1].proposal # <<>>
     /\ c.replies[1].proposal[1].status = "applied"
     /\ c.replies[2].proposal # <<>>
     /\ c.replies[2].proposal[1].oldText = c.replies[1].proposal[1].newText
     /\ c.replies[2].proposal[1].oldText # c.replies[1].proposal[1].oldText

\* C12: updateProposalStatus() returns false, emits nothing and changes no
\* comment when the comment is unknown, the reply is unknown or the reply
\* has no proposal; otherwise it returns true and sets that proposal's
\* status; applied makes the comment's selectedText the proposal's newText
\* and its length the length of newText, rejected leaves offset, length and
\* selectedText as they were.
ProposalStatusUpdate ==
  [][\A id \in CallIds, rid \in ReplyIds, st \in ProposalStatuses :
       UpdateProposalStatus(id, rid, st) =>
         IF /\ Has(comments, id)
            /\ \E k \in 1..Len(Get(comments, id).replies) :
                 /\ Get(comments, id).replies[k].id = rid
                 /\ Get(comments, id).replies[k].proposal # <<>>
           THEN LET old == Get(comments, id)
                    new == Get(comments', id)
                    k == CHOOSE j \in 1..Len(old.replies) : old.replies[j].id = rid
                IN /\ lastOp'.ret = "true"
                   /\ Has(comments', id)
                   /\ new.replies[k].proposal[1].status = st
                   /\ new.offset = old.offset
                   /\ IF st = "applied"
                        THEN /\ new.selectedText = old.replies[k].proposal[1].newText
                             /\ new.length = Len(old.replies[k].proposal[1].newText)
                        ELSE /\ new.selectedText = old.selectedText
                             /\ new.length = old.length
           ELSE /\ lastOp'.ret = "false"
                /\ comments' = comments
                /\ emitted' = <<>>]_vars

\* A proposal has just been rejected: the comment keeps the anchor it had,
\* which is not the proposal's new text.
ProposalStatusUpdateWitness ==
  /\ lastOp.op = "updateProposalStatus" /\ lastOp.ret = "true"
  /\ Has(comments, lastOp.id)
  /\ \E k \in 1..Len(Get(comments, lastOp.id).replies) :
       LET r == Get(comments, lastOp.id).replies[k] IN
       /\ r.proposal # <<>>
       /\ r.proposal[1].status = "rejected"
       /\ Get(comments, lastOp.id).selectedText # r.proposal[1].newText
       /\ Get(comments, lastOp.id).length # Len(r.proposal[1].newText)

\* The 0-based positions at which selectedText of c occurs in content n
\* inside the window [offset - 200, offset + length + 200] cut to the
\* content.
WindowHits(c, n) ==
  LET lo == IF c.offset - 200 < 0 THEN 0 ELSE c.offset - 200
      hi == IF c.offset + c.length + 200 > Len(n) THEN Len(n)
            ELSE c.offset + c.length + 200
  IN { p \in lo..(hi - Len(c.selectedText)) :
         SubSeq(n, p + 1, p + Len(c.selectedText)) = c.selectedText }

\* C13: adjustOffsets(file, old, new) moves every range-anchored comment of
\* the file whose selectedText occurs in new inside the window
\* [offset - 200, offset + length + 200], cut to the content, to a position
\* of the window where new holds selectedText, and changes nothing else of
\* it; a comment whose selectedText does not occur in the window is left as
\* it was.
AnchorsFollowText ==
  [][\A f \in Files, n \in AnchorContents :
       AdjustOffsets(f, <<>>, n) =>
         /\ Len(comments') = Len(comments)
         /\ \A i \in 1..Len(comments) :
              LET c == comments[i]
                  d == comments'[i]
              IN (c.file = f /\ c.selectedText # <<>>) =>
                   IF WindowHits(c, n) # {}
                     THEN /\ d.offset \in WindowHits(c, n)
                          /\ d = [c EXCEPT !.offset = d.offset]
                     ELSE d = c]_vars

\* "world" has moved from 10 to 16, and the w comment sits beyond offset
\* 200, where the window no longer starts at 0.
AnchorsFollowTextWitness ==
  /\ lastOp.op = "adjustOffsets"
  /\ Len(comments) = 2
  /\ comments[2].selectedText = World /\ comments[2].offset = 16
  /\ comments[1].offset > 200

\* C14: adjustOffsets(file, old, new) adds and removes no comment and writes
\* no field but offset; whole-file comments and comments of other files are
\* left as they were.
AdjustTouchesOnlyOffsets ==
  [][\A f \in Files, n \in Contents :
       AdjustOffsets(f, <<>>, n) =>
         /\ Len(comments') = Len(comments)
         /\ \A i \in 1..Len(comments) :
              LET c == comments[i]
                  d == comments'[i]
              IN /\ d = [c EXCEPT !.offset = d.offset]
                 /\ (c.file # f \/ c.selectedText = <<>>) => d = c]_vars

\* adjustOffsets has just moved a range-anchored comment of a file that
\* also has a whole-file comment.
AdjustTouchesOnlyOffsetsWitness ==
  /\ lastOp.op = "adjustOffsets"
  /\ emitted # <<>>
  /\ \E i, j \in 1..Len(comments) :
       /\ comments[i].file = comments[j].file
       /\ comments[i].selectedText = <<>>
       /\ comments[j].selectedText = <<"x">> /\ comments[j].offset = 1

\* C15 as stated: every call of adjustOffsets emits exactly one change
\* event.
AdjustAlwaysEmitsOneChange ==
  [][\A f \in Files, n \in Contents :
       AdjustOffsets(f, <<>>, n) =>
         (Len(emitted') = 1 /\ Count(emitted', "change") = 1)]_vars

\* C15 amended: a call of adjustOffsets for a file that has comments emits
\* exactly one change event, with a null argument and after every comment
\* of the file was processed, however many comments the file has; a call
\* for a file without comments emits nothing and changes nothing.
AdjustEmitsOneChange ==
  [][\A f \in Files, n \in Contents :
       AdjustOffsets(f, <<>>, n) =>
         IF \E i \in 1..Len(comments) : comments[i].file = f
           THEN /\ emitted' = <<Ev("change", <<>>)>>
                /\ observed' = <<comments'>>
           ELSE /\ emitted' = <<>>
                /\ comments' = comments
                /\ disk' = disk]_vars

\* adjustOffsets has just run on a file with two comments and emitted one
\* event.
AdjustEmitsOneChangeWitness ==
  /\ lastOp.op = "adjustOffsets"
  /\ Len(comments) = 2
  /\ comments[1].file = comments[2].file
  /\ comments[2].offset # comments[1].offset
  /\ Len(emitted) = 1

\* The status filters getAll() accepts; "" stands for none.
StatusFilters == {"", "pending", "answered", "resolved", "all"}

\* C16: getAll(filter) returns exactly the stored comments whose file is
\* filter.file, when one is given, and whose status is filter.status, when
\* one other than all is given, by ascending offset; so the answered filter
\* returns no pending or resolved comment and all returns every comment.
GetAllFiltersAndSorts ==
  /\ \A file \in Files \cup {""}, status \in StatusFilters :
       LET r == GetAll(comments, file, status)
           want == { i \in 1..Len(comments) :
                       /\ file = "" \/ comments[i].file = file
                       /\ status \in {"", "all"} \/ comments[i].status = status }
       IN /\ Len(r) = Cardinality(want)
          /\ { r[k] : k \in 1..Len(r) } = { comments[i] : i \in want }
          /\ \A k \in 1..(Len(r) - 1) : r[k].offset <= r[k + 1].offset
  /\ \A k \in 1..Len(GetAll(comments, "", "answered")) :
       GetAll(comments, "", "answered")[k].status = "answered"
  /\ Len(GetAll(comments, "", "all")) = Len(comments)

\* The store holds an answered comment inserted before a resolved comment
\* of a smaller offset.
GetAllFiltersAndSortsWitness ==
  /\ Len(comments) = 2
  /\ comments[1].offset > comments[2].offset
  /\ comments[1].status = "answered"
  /\ comments[2].status = "resolved"
  /\ Len(GetAll(comments, "", "answered")) = 1
  /\ GetAll(comments, "", "all")[1] = comments[2]

\* Reply r2 is reply r1 up to the status of its proposal.
SameReply(r1, r2) ==
  /\ r2.id = r1.id /\ r2.from = r1.from /\ r2.text = r1.text
  /\ r2.createdAt = r1.createdAt
  /\ (r2.proposal = <<>>) <=> (r1.proposal = <<>>)
  /\ r1.proposal # <<>> =>
       [r2.proposal[1] EXCEPT !.status = "pending"]
         = [r1.proposal[1] EXCEPT !.status = "pending"]

\* C17: under the store's operations the replies of a comment only grow at
\* the end: every step leaves the replies a stored comment had as a prefix
\* of its replies, each the same but for the status of its proposal; the
\* reply a reply call creates is the last one, so replies stand in the
\* order of the calls that made them.
RepliesAppendOnly ==
  [][/\ \A i \in 1..Len(comments) :
          Has(comments', comments[i].id) =>
            LET c == comments[i]
                d == Get(comments', c.id)
            IN /\ Len(d.replies) >= Len(c.replies)
               /\ \A k \in 1..Len(c.replies) : SameReply(c.replies[k], d.replies[k])
     /\ lastOp'.ret = "reply" =>
          /\ Has(comments', lastOp'.id)
          /\ LastReply(Get(comments', lastOp'.id)).id = uuid'
          /\ uuid' = uuid + 1
     /\ \A i \in 1..Len(comments') :
          \A k \in 1..(Len(comments'[i].replies) - 1) :
            comments'[i].replies[k].id < comments'[i].replies[k + 1].id]_vars

\* The proposal of the first of two replies has just been applied or
\* rejected.
RepliesAppendOnlyWitness ==
  /\ lastOp.op = "updateProposalStatus" /\ lastOp.ret = "true"
  /\ Has(comments, lastOp.id)
  /\ LET c == Get(comments, lastOp.id) IN
     /\ Len(c.replies) = 2
     /\ c.replies[1].proposal # <<>>
     /\ c.replies[1].proposal[1].status # "pending"
     /\ c.replies[2].proposal = <<>>

WaitCall == \E t \in Timeouts, sg \in Signals : WaitForComment(t, sg)

\* A stored pending comment that wait_for_comment has never returned.
Undelivered(c) == c.status = "pending" /\ c.id \notin DOMAIN lastSeenReplyCounts

\* A stored pending comment that has more replies than when wait_for_comment
\* last returned it.
Replied(c) ==
  /\ c.status = "pending"
  /\ c.id \in DOMAIN lastSeenReplyCounts
  /\ Len(c.replies) > lastSeenReplyCounts[c.id]

\* C19 as stated: a call of wait_for_comment made while some pending comment
\* was never returned comes back at once with such a comment, tagged
\* new_comment, and records its reply count.
WaitReturnsUndelivered ==
  [][(WaitCall /\ \E i \in 1..Len(comments) : Undelivered(comments[i])) =>
       /\ ~waiting'
       /\ result'.kind = "comment"
       /\ result'.event = "new_comment"
       /\ \E i \in 1..Len(comments) :
            /\ Undelivered(comments[i])
            /\ result'.comment = <<comments[i]>>
            /\ comments[i].id \in DOMAIN lastSeenReplyCounts'
            /\ lastSeenReplyCounts'[comments[i].id] = Len(comments[i].replies)]_vars

\* C19 amended: a call of wait_for_comment made while some pending comment
\* was never returned comes back at once with a pending comment and records
\* its reply count: the first, by offset, of the pending comments that were
\* never returned (tagged new_comment) or have replies since they were
\* returned (tagged follow_up); when no returned pending comment has new
\* replies it is a never-returned one, tagged new_comment.
WaitReturnsBacklog ==
  [][(WaitCall /\ \E i \in 1..Len(comments) : Undelivered(comments[i])) =>
       /\ ~waiting'
       /\ result'.kind = "comment"
       /\ \E i \in 1..Len(comments) :
            LET c == comments[i] IN
            /\ Undelivered(c) \/ Replied(c)
            /\ result'.comment = <<c>>
            /\ result'.event = IF Undelivered(c) THEN "new_comment" ELSE "follow_up"
            /\ \A j \in 1..Len(comments) :
                 (Undelivered(comments[j]) \/ Replied(comments[j])) =>
                   c.offset <= comments[j].offset
            /\ DOMAIN lastSeenReplyCounts' = DOMAIN lastSeenReplyCounts \cup {c.id}
            /\ lastSeenReplyCounts'[c.id] = Len(c.replies)
            /\ \A id \in DOMAIN lastSeenReplyCounts :
                 id # c.id => lastSeenReplyCounts'[id] = lastSeenReplyCounts[id]
       /\ (\A i \in 1..Len(comments) : ~Replied(comments[i])) =>
            result'.event = "new_comment"]_vars

\* A call has returned, tagged new_comment, a comment that already had a
\* reply, and recorded one reply for it.
WaitReturnsBacklogWitness ==
  /\ ~waiting
  /\ result.kind = "comment" /\ result.event = "new_comment"
  /\ Len(result.comment[1].replies) = 1
  /\ result.comment[1].id \in DOMAIN lastSeenReplyCounts
  /\ lastSeenReplyCounts[result.comment[1].id] = 1
  /\ quiet

\* C20 as stated: when the last call returned a comment and no store
\* operation has happened since, the next call, made with a signal that is
\* not aborted, does not return that comment again and blocks.
WaitAgainBlocks ==
  [][\A t \in Timeouts, sg \in {"none", "live"} :
       (WaitForComment(t, sg) /\ quiet /\ result.kind = "comment") =>
         /\ waiting'
         /\ result' = result]_vars

\* C20 amended: when the last call returned a comment c and no store
\* operation has happened since, the next call does not return c again; if
\* every pending comment has been returned with the replies it has, the
\* call blocks, or is cancelled at once when its signal is already aborted,
\* and a blocked call that ends without a store operation returns the
\* timeout text, with the number of pending comments, or the cancellation
\* text.
WaitDoesNotRedeliver ==
  [][/\ (WaitCall /\ quiet /\ result.kind = "comment") =>
          /\ \/ waiting'
             \/ result'.kind = "cancelled"
             \/ result'.comment[1].id # result.comment[1].id
          /\ (\A i \in 1..Len(comments) :
                ~Undelivered(comments[i]) /\ ~Replied(comments[i])) =>
               (waiting' \/ result'.kind = "cancelled")
          /\ \A t \in Timeouts, sg \in {"none", "live"} :
               (WaitForComment(t, sg) /\ \A i \in 1..Len(comments) :
                  ~Undelivered(comments[i]) /\ ~Replied(comments[i])) => waiting'
     /\ (waiting /\ ~waiting' /\ UNCHANGED storeVars) =>
          /\ result'.kind \in {"timeout", "cancelled"}
          /\ result'.kind = "timeout" =>
               result'.count = Cardinality({ i \in 1..Len(comments) :
                                              comments[i].status = "pending" })
          /\ lastSeenReplyCounts' = lastSeenReplyCounts]_vars

\* The call made right after a comment was returned is blocked; the comment
\* is still stored and pending.
WaitDoesNotRedeliverWitness ==
  /\ waiting /\ quiet
  /\ result.kind = "comment"
  /\ StoreGet(comments, result.comment[1].id) = result.comment
  /\ result.comment[1].status = "pending"

\* The pending comment comments[i] is the one the backlog check reaches
\* first: no due comment has a smaller offset, or the same offset and an
\* earlier place in the store.
FirstDueInStore(i) ==
  /\ Undelivered(comments[i]) \/ Replied(comments[i])
  /\ \A j \in 1..Len(comments) :
       (Undelivered(comments[j]) \/ Replied(comments[j])) =>
         \/ comments[i].offset < comments[j].offset
         \/ comments[i].offset = comments[j].offset /\ i <= j

\* The replies of c that the user wrote, by position.
UserReplies(c) == { k \in 1..Len(c.replies) : c.replies[k].from = "user" }

\* The text of the last reply of c that the user wrote.
NewestUserReplyText(c) ==
  c.replies[CHOOSE k \in UserReplies(c) : \A j \in UserReplies(c) : j <= k].text

DeliveredByListener(type, tag) ==
  \A k \in 1..Len(emitted') :
    emitted'[k].type = type =>
      LET c == emitted'[k].payload[1] IN
      /\ ~waiting'
      /\ result'.kind = "comment" /\ result'.event = tag
      /\ result'.comment = <<c>>
      /\ StoreGet(comments', c.id) = <<c>>
      /\ c.id \in DOMAIN lastSeenReplyCounts'
      /\ lastSeenReplyCounts'[c.id] = Len(c.replies)

\* C22: while a call of wait_for_comment is blocked, a store operation that
\* emits new_comment resolves it with that comment tagged new_comment, one
\* that emits comment_reopened resolves it with that comment tagged
\* follow_up, and in both cases the comment's reply count is recorded.
ListenersDeliver ==
  [][(waiting /\ comments' # comments) =>
       /\ DeliveredByListener("new_comment", "new_comment")
       /\ DeliveredByListener("comment_reopened", "follow_up")]_vars

\* A blocked call was resolved by comment_reopened: it returned, tagged
\* follow_up, a comment without replies, which the backlog check never tags
\* so, and nothing of the call is left registered.
ListenersDeliverWitness ==
  /\ ~waiting /\ settled = 1
  /\ result.kind = "comment" /\ result.event = "follow_up"
  /\ result.comment[1].replies = <<>>
  /\ lastSeenReplyCounts[result.comment[1].id] = 0
  /\ Count(emitted, "comment_reopened") = 1
  /\ listeners = {} /\ timer = <<>>

\* C23: every call of wait_for_comment has exactly one outcome.  While it is
\* blocked no callback has run and its timer and store listeners are
\* registered; when it resolves, one callback has run, the result is a
\* comment, the timeout text or the cancellation text, and no listener or
\* timer stays registered; afterwards no second callback runs and the
\* result stands until the next call.
ExactlyOneOutcome ==
  /\ [](/\ settled <= 1
        /\ waiting => /\ settled = 0
                      /\ timer # <<>>
                      /\ {"new_comment", "comment_reopened"} \subseteq listeners
        /\ ~waiting => listeners = {} /\ timer = <<>>
        /\ (~waiting /\ result.kind # "none") => settled = 1)
  /\ [][(waiting /\ ~waiting') =>
          /\ result'.kind \in {"comment", "timeout", "cancelled"}
          /\ settled' = 1
          /\ listeners' = {} /\ timer' = <<>>]_vars
  /\ [][(~waiting /\ ~waiting') => (result' = result \/ WaitCall)]_vars

\* A blocked call timed out and a comment was added afterwards: the call has
\* its one outcome, the timeout text, and the new_comment event found
\* nothing registered.
ExactlyOneOutcomeWitness ==
  /\ ~waiting /\ settled = 1 /\ ~quiet
  /\ result.kind = "timeout" /\ result.count = 0
  /\ Count(emitted, "new_comment") = 1
  /\ listeners = {} /\ timer = <<>>
  /\ emitted[1].payload[1].id \notin DOMAIN lastSeenReplyCounts

\* The pending comments hold nothing the backlog check would return.
NothingDue ==
  \A i \in 1..Len(comments) : ~Undelivered(comments[i]) /\ ~Replied(comments[i])

\* The call is over with the cancellation text, nothing of it registered
\* and no comment newly marked as delivered.
Cancelled ==
  /\ ~waiting'
  /\ result' = Result("cancelled", "none", <<>>, 0)
  /\ listeners' = {} /\ timer' = <<>>
  /\ lastSeenReplyCounts' = lastSeenReplyCounts

\* C24: a blocked call that its caller cancels, and a call that starts to
\* block with a signal that is already aborted, return the cancellation
\* text with the store listeners and the timer deregistered; whatever the
\* store or the timer do afterwards, until the next call, changes neither
\* the result nor the delivered reply counts.
CancelDeregisters ==
  /\ [][Abort => (waiting /\ Cancelled)]_vars
  /\ [][\A t \in Timeouts :
          (WaitForComment(t, "aborted") /\ NothingDue) => Cancelled]_vars
  /\ [][(~waiting /\ result.kind = "cancelled" /\ ~WaitCall) =>
          /\ result' = result
          /\ lastSeenReplyCounts' = lastSeenReplyCounts
          /\ settled' = settled
          /\ listeners' = {} /\ timer' = <<>>]_vars

\* A call was cancelled and a resolved comment was reopened afterwards: the
\* result is still the cancellation text and the reopened comment, never
\* returned, is not marked as delivered.
CancelDeregistersWitness ==
  /\ ~waiting /\ settled = 1 /\ ~quiet
  /\ result.kind = "cancelled"
  /\ Count(emitted, "comment_reopened") = 1
  /\ lastOp.op = "reopen"
  /\ lastSeenReplyCounts = <<>>
  /\ listeners = {} /\ timer = <<>>

\* The number of pending comments a timeout text reports.
ReportedCount(text) == IF Len(text) = 3 THEN text[2] ELSE 0

\* C25: a blocked call of wait_for_comment terminates.  Its timer is armed
\* with the timeout given, 30 s when none is given; the timer firing ends
\* the call with the timeout text, which reports the number of comments
\* pending at that moment; a blocked call that ends without a store
\* operation and without cancellation ends that way; and every blocked
\* call eventually ends.
TimeoutTerminates ==
  /\ [][\A t \in Timeouts, sg \in Signals :
          (WaitForComment(t, sg) /\ waiting') =>
            timer' = <<IF t = <<>> THEN 30000 ELSE 1000 * t[1]>>]_vars
  /\ [][Timeout =>
          /\ waiting /\ ~waiting'
          /\ result'.kind = "timeout"
          /\ ReportedCount(result'.text) =
               Cardinality({ i \in 1..Len(comments) : comments[i].status = "pending" })
          /\ result'.text[1] \in {"Timeout, but ", "No new comments yet."}]_vars
  /\ [][(waiting /\ ~waiting' /\ UNCHANGED storeVars /\ ~Abort) => Timeout]_vars
  /\ (waiting ~> ~waiting)

\* A call has timed out while one of the two stored comments was pending,
\* and returned the text with the count 1.
TimeoutTerminatesWitness ==
  /\ ~waiting /\ settled = 1 /\ quiet
  /\ result.kind = "timeout"
  /\ result.text = <<"Timeout, but ", 1, " pending comment(s) exist.">>
  /\ Len(comments) = 2

\* The stored comments that are pending and were never returned, and those
\* the backlog check would return, by position.
UndeliveredSet == { i \in 1..Len(comments) : Undelivered(comments[i]) }

DueSet ==
  { i \in 1..Len(comments) : Undelivered(comments[i]) \/ Replied(comments[i]) }

\* After the step the comment at position i is no longer due and every
\* other comment is due exactly if it was.
Drained(i) ==
  /\ comments' = comments
  /\ comments[i].id \in DOMAIN lastSeenReplyCounts'
  /\ lastSeenReplyCounts'[comments[i].id] = Len(comments[i].replies)
  /\ \A j \in 1..Len(comments) :
       j # i =>
         /\ (comments[j].id \in DOMAIN lastSeenReplyCounts')
              = (comments[j].id \in DOMAIN lastSeenReplyCounts)
         /\ comments[j].id \in DOMAIN lastSeenReplyCounts =>
              lastSeenReplyCounts'[comments[j].id] = lastSeenReplyCounts[comments[j].id]

\* C26 as stated, one call at a time: a call of wait_for_comment made while
\* k > 0 pending comments were never returned comes back at once with one
\* of them, tagged new_comment, leaving k - 1; a call made while there is
\* none blocks; and between calls, without store activity, k stays.
WaitDrainsUndelivered ==
  /\ [][\A t \in Timeouts, sg \in {"none", "live"} :
          WaitForComment(t, sg) =>
            IF UndeliveredSet # {}
              THEN /\ ~waiting'
                   /\ result'.kind = "comment" /\ result'.event = "new_comment"
                   /\ \E i \in UndeliveredSet :
                        result'.comment = <<comments[i]>> /\ Drained(i)
              ELSE waiting']_vars
  /\ [][(UNCHANGED storeVars /\ ~WaitCall) =>
          lastSeenReplyCounts' = lastSeenReplyCounts]_vars

\* C26 amended: comments that arrive while no call is blocked are not
\* lost.  A call of wait_for_comment made while k > 0 pending comments are
\* due (never returned, or with more replies than when last returned)
\* comes back at once with one of them, tagged new_comment if it was never
\* returned and follow_up otherwise, leaving k - 1 due; a call made while
\* none is due blocks, or is cancelled at once when its signal is already
\* aborted; and between calls, without store activity, the due comments
\* stay the same.
WaitDrainsBacklog ==
  /\ [][\A t \in Timeouts, sg \in Signals :
          WaitForComment(t, sg) =>
            IF DueSet # {}
              THEN /\ ~waiting'
                   /\ result'.kind = "comment"
                   /\ \E i \in DueSet :
                        /\ result'.comment = <<comments[i]>>
                        /\ result'.event = IF i \in UndeliveredSet
                                             THEN "new_comment" ELSE "follow_up"
                        /\ Drained(i)
              ELSE IF sg = "aborted"
                     THEN ~waiting' /\ result'.kind = "cancelled"
                     ELSE waiting']_vars
  /\ [][(UNCHANGED storeVars /\ ~WaitCall) =>
          lastSeenReplyCounts' = lastSeenReplyCounts]_vars

\* Two comments are stored and pending, the second added with no call
\* blocked; a call made since has returned the first, tagged new_comment,
\* and the second is still to be returned.
WaitDrainsBacklogWitness ==
  /\ ~waiting /\ quiet
  /\ result.kind = "comment" /\ result.event = "new_comment"
  /\ lastOp.op = "add" /\ lastOp.id # result.comment[1].id
  /\ Len(comments) = 2
  /\ Cardinality(UndeliveredSet) = 1
  /\ Cardinality(DueSet) = 1
  /\ StoreGet(comments, result.comment[1].id) = result.comment

\* The comments of the last listing that are stored as listed, pending and
\* were never returned by wait_for_comment.
OnlyListed ==
  IF listed[1] = "json"
    THEN { k \in 1..Len(listed[2]) :
             /\ StoreGet(comments, listed[2][k].id) = <<listed[2][k]>>
             /\ Undelivered(listed[2][k]) }
    ELSE {}

Ids(cs) == { cs[k].id : k \in 1..Len(cs) }

\* The new_comment events of evs that carry the comment with this id.
Announced(evs, id) ==
  { k \in 1..Len(evs) : evs[k].type = "new_comment" /\ evs[k].payload[1].id = id }

\* C28: reload() on a file that holds a valid array of comments makes the
\* map hold exactly the comments of the file, emits new_comment once, with
\* the comment of the file, for each id of the file that the map did not
\* have and for no other id, and then emits one change event; it writes
\* nothing.
ReloadAdoptsDurableCopy ==
  [][(ReloadApply /\ disk # <<>> /\ disk[1].parses) =>
       LET arr == JsonParse(disk[1]) IN
       /\ comments' = arr
       /\ \A k \in 1..Len(emitted') :
            /\ emitted'[k].type \in {"new_comment", "change"}
            /\ (emitted'[k].type = "change") = (k = Len(emitted'))
            /\ emitted'[k].type = "new_comment" =>
                 /\ emitted'[k].payload[1].id \in Ids(arr) \ Ids(comments)
                 /\ StoreGet(comments', emitted'[k].payload[1].id) = emitted'[k].payload
       /\ emitted' # <<>> /\ emitted'[Len(emitted')] = Ev("change", <<>>)
       /\ \A id \in Ids(arr) \ Ids(comments) : Cardinality(Announced(emitted', id)) = 1
       /\ UNCHANGED <<disk, lastWriteTime>>]_vars

\* A reload has replaced one comment and announced another: the map had a
\* pending comment, the file holds it resolved and a second comment.
ReloadAdoptsDurableCopyWitness ==
  /\ lastOp.op = "reload"
  /\ Len(comments) = 2 /\ Len(emitted) = 2
  /\ comments[1].status = "resolved"
  /\ emitted[1] = Ev("new_comment", <<comments[2]>>)
  /\ emitted[2] = Ev("change", <<>>)
  /\ disk = <<JsonStringify(comments)>>

\* C29: reload() when the file is missing or does not parse empties the
\* map, emits one change event and returns normally, leaving the file
\* alone.
ReloadClearsOnFailure ==
  [][(ReloadApply /\ (disk = <<>> \/ ~disk[1].parses)) =>
       /\ comments' = <<>>
       /\ emitted' = <<Ev("change", <<>>)>>
       /\ observed' = << <<>> >>
       /\ lastOp'.ret = "void"
       /\ UNCHANGED <<disk, lastWriteTime>>]_vars

\* A reload has found a file that does not parse, after comments were
\* created: the map is empty and one change event was emitted.
ReloadClearsOnFailureWitness ==
  /\ lastOp.op = "reload" /\ ~reading
  /\ comments = <<>>
  /\ emitted = <<Ev("change", <<>>)>>
  /\ disk = <<Garbled>>
  /\ uuid = 2 /\ deleted = {}

MarkerAt(text, id) == { k \in 1..Len(text) : text[k].of = id }

\* The marker of id is one unbroken run of the text.
Unbroken(text, id) ==
  \A j \in MarkerAt(text, id), k \in MarkerAt(text, id) :
    \A m \in j..k : text[m].of = id

\* How many characters of the file's content stand before position k.
ContentBefore(text, k) == Cardinality({ j \in 1..(k - 1) : text[j].of = 0 })

\* The characters of an annotated text without where they came from.
Chars(text) == [k \in 1..Len(text) |-> text[k].ch]

\* The characters of the marker of id, in the order they stand in the text.
MarkerText(text, id) == Chars(SelectSeq(text, LAMBDA x : x.of = id))

\* The range-anchored and the whole-file comments of the annotated file.
RangeComments == { k \in 1..Len(comments) : comments[k].selectedText # <<>> }
FileComments == { k \in 1..Len(comments) : comments[k].selectedText = <<>> }

\* C31: in the text that get_file_with_annotations returns, the marker of
\* every range-anchored comment stands as one unbroken marker right after
\* the comment's span content[offset, offset + length): all of the content
\* up to the end of the span is before it and none of the rest, and it does
\* not stand inside the marker of another comment.
MarkersFollowSpans ==
  [][GetFileWithAnnotations("a.md", TestContent) =>
       \A k \in RangeComments :
         LET c == comments[k]
             text == annotated'[1]
         IN /\ MarkerText(text, c.id) = <<" ">> \o Marker(c)
            /\ Unbroken(text, c.id)
            /\ \A m \in MarkerAt(text, c.id) :
                 ContentBefore(text, m) = c.offset + c.length
            /\ \A o \in 1..Len(comments) :
                 o # k =>
                   ~ \E i \in MarkerAt(text, comments[o].id),
                        j \in MarkerAt(text, comments[o].id) :
                        \E m \in MarkerAt(text, c.id) : i < m /\ m < j]_vars

\* C32: in the text that get_file_with_annotations returns, every whole-file
\* comment is one marker `[FILE COMMENT #id: "body"]` on a line of its own
\* that stands before all of the file's content, and no inline marker.
FileMarkersOnTop ==
  [][GetFileWithAnnotations("a.md", TestContent) =>
       \A k \in FileComments :
         LET c == comments[k]
             text == annotated'[1]
         IN /\ MarkerText(text, c.id) = FileMarker(c)
            /\ Unbroken(text, c.id)
            /\ \A m \in MarkerAt(text, c.id) : ContentBefore(text, m) = 0]_vars

\* C33: a change of the file that the watcher reports less than 200 ms
\* after the store began its latest persist starts no reload: the comments
\* are as they were, no read of the file begins and the listeners receive no
\* event.  So while a single add is all that was written and the reports
\* came within that time, the listeners have received exactly one change.
SelfWriteSuppressed ==
  /\ [][(WatcherChange /\ now - lastWriteTime < GuardWindow) =>
          /\ comments' = comments
          /\ reading' = reading
          /\ emitted' = emitted
          /\ changesHeard' = changesHeard]_vars
  /\ [](uuid = 1 /\ lastOp.op = "add" /\ ~reading => changesHeard = 1)

\* The add's write completed and the watcher reported it within the window.
SelfWriteSuppressedWitness ==
  /\ uuid = 1 /\ lastOp.op = "add" /\ Len(comments) = 1
  /\ disk # <<>> /\ writing = <<>> /\ notices = 0 /\ ~reading
  /\ now - lastWriteTime = TickMs
  /\ changesHeard = 1

\* Content n holds text t at the 0-based position p.
HoldsAt(n, p, t) == p + Len(t) <= Len(n) /\ SubSeq(n, p + 1, p + Len(t)) = t

\* The positions before the offset of c, no more than 200 before it, at
\* which content n holds the selected text of c.
HitsBefore(c, n) == { p \in WindowHits(c, n) : p < c.offset }

\* The least number of a non-empty set of numbers.
Least(S) == CHOOSE p \in S : \A q \in S : p <= q

\* C34 as stated: adjustOffsets leaves the offset of every comment whose
\* selected text the new content holds at that offset.
ValidAnchorStays ==
  [][\A f \in Files, n \in RepeatContents :
       FileChanged(f, n) =>
         \A i \in 1..Len(comments) :
           LET c == comments[i]
           IN (c.file = f /\ c.selectedText # <<>>
                 /\ HoldsAt(n, c.offset, c.selectedText)) =>
                comments'[i].offset = c.offset]_vars

\* C34: when the new content holds the selected text of a comment at the
\* comment's offset, adjustOffsets leaves the offset as it is unless the
\* content also holds the selected text at a position up to 200 before the
\* offset; then it moves the comment to the first such position.
ValidAnchorStaysOrMovesBack ==
  [][\A f \in Files, n \in RepeatContents :
       FileChanged(f, n) =>
         \A i \in 1..Len(comments) :
           LET c == comments[i]
           IN (c.file = f /\ c.selectedText # <<>>
                 /\ HoldsAt(n, c.offset, c.selectedText)) =>
                comments'[i].offset =
                  (IF HitsBefore(c, n) = {} THEN c.offset
                   ELSE Least(HitsBefore(c, n)))]_vars

\* The w comment was at 400 when the content came to hold w at 400 and at
\* 500, and the call left it there.
ValidAnchorStaysOrMovesBackWitness ==
  /\ adjustedTo # <<>>
  /\ adjustedTo[1].file = "a.md"
  /\ adjustedTo[1].content = Dots(AnchorLen, {400, 500})
  /\ ~adjustedTo[1].again
  /\ adjustedTo[1].moved = {}
  /\ comments[1].offset = 400

\* C35 as stated: a second adjustOffsets with the content of the call
\* before it leaves every offset as the first call left it.
AdjustIsIdempotent ==
  [][\A f \in Files, n \in RepeatContents :
       (adjustedTo # <<>> /\ adjustedTo[1].file = f /\ adjustedTo[1].content = n
          /\ FileChanged(f, n)) =>
         \A i \in 1..Len(comments) : comments'[i].offset = comments[i].offset]_vars

\* C35: a second adjustOffsets with the content of the call before it
\* leaves the offset of a comment as the first call left it unless the
\* content holds the comment's selected text at a position up to 200 before
\* that offset; then the second call moves the comment to the first such
\* position.
AdjustRepeatsUnlessEarlierMatch ==
  [][\A f \in Files, n \in RepeatContents :
       (adjustedTo # <<>> /\ adjustedTo[1].file = f /\ adjustedTo[1].content = n
          /\ FileChanged(f, n)) =>
         \A i \in 1..Len(comments) :
           LET c == comments[i]
           IN comments'[i].offset =
                (IF c.file = f /\ c.selectedText # <<>> /\ HitsBefore(c, n) # {}
                   THEN Least(HitsBefore(c, n)) ELSE c.offset)]_vars

\* The second of two calls with the content that holds w at 500 only moved
\* nothing: the first had moved the w comment to 500.
AdjustRepeatsUnlessEarlierMatchWitness ==
  /\ adjustedTo # <<>>
  /\ adjustedTo[1].file = "a.md"
  /\ adjustedTo[1].content = Dots(AnchorLen, {500})
  /\ adjustedTo[1].again
  /\ adjustedTo[1].moved = {}
  /\ comments[1].offset = 500
  /\ comments[2].offset = 10

\* The last store operation was a reopen() that took comment lastOp.id from
\* resolved to pending while no call of wait_for_comment was blocked, the
\* comment had been returned before, and no call was made since.
ReopenedUnheard ==
  /\ lastOp.op = "reopen" /\ lastOp.ret = "comment"
  /\ ~waiting /\ ~quiet
  /\ lastOp.id \in DOMAIN lastSeenReplyCounts

\* C36: the call of wait_for_comment that follows a reopen() of a comment
\* returned before, made while no call was blocked, comes back with that
\* comment tagged follow_up.
ReopenReachesNextCall ==
  [][(WaitCall /\ ReopenedUnheard) =>
       /\ ~waiting'
       /\ result'.kind = "comment" /\ result'.event = "follow_up"
       /\ result'.comment = StoreGet(comments, lastOp.id)]_vars

\* C37: a call of wait_for_comment ends with a comment tagged follow_up, or
\* with a comment it has returned before, only if the user replied to that
\* comment or reopened it since it was last returned; a reply or a proposal
\* of the agent neither ends a blocked call nor leaves a comment that was
\* not due for the backlog check due for it.
FollowUpNeedsHumanAction ==
  /\ [][\A id \in 1..MaxUuid, call \in BOOLEAN :
          (Returns(id, call) /\ (call => WaitForComment(<<>>, "none"))
             /\ (result'.event = "follow_up" \/ id \in DOMAIN lastSeenReplyCounts)) =>
            /\ result'.event = "follow_up"
            /\ id \in humanSince \/ UserActs(id)]_vars
  /\ [][(comments' # comments /\ lastOp'.from = "agent") =>
          /\ waiting' = waiting
          /\ lastSeenReplyCounts' = lastSeenReplyCounts
          /\ \A i \in 1..Len(comments) :
               (Has(comments', comments[i].id)
                  /\ Get(comments', comments[i].id).status = "pending"
                  /\ Due(lastSeenReplyCounts, Get(comments', comments[i].id))) =>
                 comments[i].status = "pending" /\ Due(lastSeenReplyCounts, comments[i])]_vars

\* A comment that had been returned and then answered by the agent with a
\* reply and a proposal was returned again, tagged follow_up, after the user
\* replied to it.
FollowUpNeedsHumanActionWitness ==
  /\ ~waiting /\ result.kind = "comment" /\ result.event = "follow_up"
  /\ Len(result.comment[1].replies) = 2
  /\ result.comment[1].replies[1].proposal # <<>>
  /\ result.comment[1].replies[2].from = "user"
  /\ lastSeenReplyCounts[result.comment[1].id] = 2
  /\ humanSince = {}

\* C38: whatever calls of wait_for_comment are made, one after another or
\* while another is blocked, no comment id is returned tagged new_comment by
\* more than one of them.
NewCommentOnce == \A id \in 1..MaxUuid : newCalls[id] <= 1

\* C39: once updateProposalStatus() has set a proposal to applied or
\* rejected, no later updateProposalStatus() changes that proposal's status
\* or writes the comment's selectedText and length from it again: a call on
\* a proposal that is no longer pending leaves the comment as it was.
ProposalStatusFinal ==
  [][\A id \in CallIds, rid \in ReplyIds, st \in ProposalStatuses :
       (/\ UpdateProposalStatus(id, rid, st)
        /\ Has(comments, id)
        /\ FindReply(Get(comments, id).replies, rid) # 0) =>
         LET old == Get(comments, id)
             k == FindReply(old.replies, rid)
         IN (old.replies[k].proposal # <<>>
               /\ old.replies[k].proposal[1].status # "pending") =>
              /\ Has(comments', id)
              /\ Get(comments', id).replies[k].proposal = old.replies[k].proposal
              /\ Get(comments', id).selectedText = old.selectedText
              /\ Get(comments', id).length = old.length]_vars

\* C40: when every write that the operations scheduled has completed, and
\* at least one has, the file holds the comments of the store; writes that
\* were in flight together do not leave an older snapshot in the file.
DurableCopyConverges ==
  (writing = <<>> /\ disk # <<>>) => disk = <<JsonStringify(comments)>>

====
